---- MODULE Spec2Model ----
(***************************************************************************)
(* A model of xiv (src/xiv.py): the index selector parse_indices, the      *)
(* retry engine retry_with_backoff, the per-item download, the batch       *)
(* downloader download_papers, is_captcha, search, and main around them.   *)
(* Strings are sequences of one-character strings.                         *)
(***************************************************************************)
EXTENDS Integers, Sequences, FiniteSets, TLC

VARIABLES
    spec,          \* parse_indices: the spec argument (None or a string)
    total,         \* parse_indices: the total argument
    piPc,          \* parse_indices: "call" before the call, "done" after it
    piResult,      \* parse_indices: the value returned
    retryAttempts, \* DEFAULT_RETRY_ATTEMPTS, fixed when the module is loaded
    stderr,        \* sys.stderr: the notices written so far
    rbPc,          \* retry_with_backoff: "try", "sleep", "returned", "raised"
    rbAttempt,     \* retry_with_backoff: the loop variable attempt
    rbResult,      \* retry_with_backoff: the value returned
    rbLog,         \* retry_with_backoff: the operation calls and sleeps so far
    dirExists,     \* os.path.exists(output_dir)
    file,          \* the file at the item's local path (NoFile when absent)
    dlPc,          \* download: "init", "fetch", "sleep", "returned", "raised"
    dlAttempt,     \* download: the loop variable attempt
    dlResult,      \* download: "True", "False" or "captcha" once returned
    dlLog,         \* download: the fetch_pdf calls and sleeps so far
    dlLeft,        \* download: the file as the last fetch_pdf call left it
    papers,        \* download_papers: the links of the records given
    dpIndices,      \* download_papers: the indices argument (None or a list)
    dpPc,          \* download_papers: "start", "item", "delay", "done", "exit130", "raised"
    dpI,           \* download_papers: the loop counter i (from 1)
    ok,            \* download_papers: the local ok
    captcha_count, \* download_papers: the local captcha_count
    fs,            \* the file at the local path of each link
    dpLog,         \* download_papers: the items, delays and cancellations so far
    capFile,       \* is_captcha: the file at the path given
    capPc,         \* is_captcha: "call" before the call, "done" after it
    capResult,     \* is_captcha: the value returned
    since,         \* search: the since argument (None or a string)
    feed,          \* search: the document the service answers with
    srPc,          \* search: "fetch", "returned", "raised"
    srParsed,      \* search: whether ET.fromstring was called
    srResult,      \* search: the list of records returned
    pnLink,        \* the path derivation of download: the link argument
    pnDir,         \* the path derivation of download: the output_dir argument
    pnPc,          \* the path derivation of download: "call", "done"
    pnPath,        \* the path derivation of download: the path derived
    args,          \* main: the parsed command line
    mainPc,        \* main: the point main has reached
    stdout,        \* what was written to the primary output
    exitStatus,    \* the exit status of the process, -1 while it runs
    mainLog        \* main: the calls main has made, in order

parseVars == <<spec, total, piPc, piResult>>

retryVars == <<rbPc, rbAttempt, rbResult, rbLog>>

dlVars == <<dirExists, file, dlPc, dlAttempt, dlResult, dlLog, dlLeft>>

batchVars == <<papers, dpIndices, dpPc, dpI, ok, captcha_count, fs, dpLog>>

captchaVars == <<capFile, capPc, capResult>>

searchVars == <<since, feed, srPc, srParsed, srResult>>

pathVars == <<pnLink, pnDir, pnPc, pnPath>>

mainVars == <<args, mainPc, stdout, exitStatus, mainLog>>

vars == <<spec, total, piPc, piResult, retryAttempts, stderr, rbPc, rbAttempt, rbResult, rbLog,
          dirExists, file, dlPc, dlAttempt, dlResult, dlLog, dlLeft,
          papers, dpIndices, dpPc, dpI, ok, captcha_count, fs, dpLog,
          capFile, capPc, capResult, since, feed, srPc, srParsed, srResult,
          pnLink, pnDir, pnPc, pnPath, args, mainPc, stdout, exitStatus, mainLog>>

----------------------------------------------------------------------------
(* Bounds of the model *)

MaxSpecLen == 5
MaxTotal == 3

----------------------------------------------------------------------------
(* Python values *)

None == [isNone |-> TRUE, val |-> <<>>]
Some(v) == [isNone |-> FALSE, val |-> v]

Digits == {"0", "1", "2"}
Whitespace == {" "}
Alphabet == Digits \cup Whitespace \cup {",", "-", "+", "a"}

DigitVal(c) == CASE c = "0" -> 0 [] c = "1" -> 1 [] c = "2" -> 2 [] OTHER -> 0

Range(s) == {s[i] : i \in 1..Len(s)}

RECURSIVE lstrip(_)
lstrip(s) == IF s # <<>> /\ Head(s) \in Whitespace THEN lstrip(Tail(s)) ELSE s

RECURSIVE rstrip(_)
rstrip(s) ==
    IF s # <<>> /\ s[Len(s)] \in Whitespace THEN rstrip(SubSeq(s, 1, Len(s) - 1)) ELSE s

\* str.strip(): leading and trailing whitespace removed
strip(s) == rstrip(lstrip(s))

\* position of the first occurrence of sep in s (0 when absent)
find(s, sep) ==
    IF sep \in Range(s)
    THEN CHOOSE i \in 1..Len(s) : s[i] = sep /\ \A j \in 1..(i - 1) : s[j] # sep
    ELSE 0

\* str.split(sep): always at least one part, empty parts kept
RECURSIVE split(_, _)
split(s, sep) ==
    IF find(s, sep) = 0 THEN <<s>>
    ELSE <<SubSeq(s, 1, find(s, sep) - 1)>> \o split(SubSeq(s, find(s, sep) + 1, Len(s)), sep)

\* str.split(sep, 1): at most one cut, at the first occurrence
split1(s, sep) ==
    IF find(s, sep) = 0 THEN <<s>>
    ELSE <<SubSeq(s, 1, find(s, sep) - 1), SubSeq(s, find(s, sep) + 1, Len(s))>>

RECURSIVE DigitsVal(_)
DigitsVal(s) ==
    IF s = <<>> THEN 0 ELSE DigitsVal(SubSeq(s, 1, Len(s) - 1)) * 10 + DigitVal(s[Len(s)])

ValueError == [ok |-> FALSE, val |-> 0]

\* int(str): surrounding whitespace ignored, one optional sign, then one or
\* more decimal digits; anything else raises ValueError
int(s) ==
    LET t == strip(s)
        body == IF t # <<>> /\ Head(t) \in {"+", "-"} THEN Tail(t) ELSE t
    IN  IF body # <<>> /\ \A i \in 1..Len(body) : body[i] \in Digits
        THEN [ok |-> TRUE, val |-> (IF Head(t) = "-" THEN -1 ELSE 1) * DigitsVal(body)]
        ELSE ValueError

\* sorted(set): the elements in ascending order
RECURSIVE sorted(_)
sorted(S) ==
    IF S = {} THEN <<>>
    ELSE LET m == CHOOSE x \in S : \A y \in S : x <= y
         IN  <<m>> \o sorted(S \ {m})

----------------------------------------------------------------------------
(* parse_indices *)

\* RangeRejected without the test for an inverted range
RangeRejected_noInverted(start_idx, end_idx, tot) ==
    start_idx < 0 \/ end_idx >= tot

\* the rejection test of a range token (line 341)
RangeRejected(start_idx, end_idx, tot) ==
    start_idx < 0 \/ end_idx >= tot \/ start_idx > end_idx

\* IndexRejected with the upper limit off by one
IndexRejected_offByOne(idx, tot) == idx < 0 \/ idx > tot

\* the rejection test of a single token (line 346)
IndexRejected(idx, tot) == idx < 0 \/ idx >= tot

\* the for loop of parse_indices over the remaining parts, indices being the
\* set built so far; a return or a caught ValueError ends it with None
RECURSIVE ParseParts(_, _, _)
ParseParts(parts, tot, indices) ==
    IF parts = <<>> THEN Some(sorted(indices))
    ELSE LET part == strip(Head(parts)) IN
         IF "-" \in Range(part)
         THEN LET se == split1(part, "-")
                  s == int(se[1])
                  e == int(se[2])
              IN  IF ~s.ok \/ ~e.ok THEN None
                  ELSE IF RangeRejected(s.val - 1, e.val - 1, tot) THEN None
                  ELSE ParseParts(Tail(parts), tot, indices \cup ((s.val - 1)..(e.val - 1)))
         ELSE LET n == int(part)
              IN  IF ~n.ok THEN None
                  ELSE IF IndexRejected(n.val - 1, tot) THEN None
                  ELSE ParseParts(Tail(parts), tot, indices \cup {n.val - 1})

\* a parse_indices that answers an empty spec with an empty selection
parse_indices_emptyList(sp, tot) ==
    IF sp.isNone THEN None
    ELSE IF sp.val = <<>> THEN Some(<<>>)
    ELSE ParseParts(split(sp.val, ","), tot, {})

parse_indices(sp, tot) ==
    IF sp.isNone \/ sp.val = <<>> THEN None
    ELSE ParseParts(split(sp.val, ","), tot, {})

----------------------------------------------------------------------------
(* Configuration (lines 96-104) *)

DefaultRetryAttempts == 3
MinRetryAttempts == 1
MaxRetryAttempts == 10

\* the values getenv_int('XIV_RETRY_ATTEMPTS', 3, min_val=1, max_val=10) can return
RetryAttemptsRange == MinRetryAttempts..MaxRetryAttempts

----------------------------------------------------------------------------
(* Error Classifier *)

\* str.lower() on the letters that occur in the modelled messages
lowerChar(c) ==
    CASE c = "T" -> "t" [] c = "I" -> "i" [] c = "M" -> "m" [] c = "E" -> "e"
      [] c = "O" -> "o" [] c = "U" -> "u" [] c = "H" -> "h" [] c = "L" -> "l"
      [] c = "D" -> "d" [] c = "C" -> "c" [] c = "Y" -> "y" [] c = "P" -> "p"
      [] c = "A" -> "a" [] c = "F" -> "f"
      [] OTHER -> c

lower(s) == [i \in 1..Len(s) |-> lowerChar(s[i])]

\* sub in s, for strings
Contains(s, sub) ==
    \E i \in 0..(Len(s) - Len(sub)) : SubSeq(s, i + 1, i + Len(sub)) = sub

RetryableCodes ==
    {<<"5", "0", "3">>, <<"5", "0", "2">>, <<"5", "0", "4">>, <<"t", "i", "m", "e", "o", "u", "t">>}

\* is_retryable_error that takes every 50x status for a transient one
is_retryable_error_any50x(error) ==
    Contains(lower(error), <<"5", "0">>) \/ Contains(lower(error), <<"t", "i", "m", "e", "o", "u", "t">>)

is_retryable_error(error) ==
    \E code \in RetryableCodes : Contains(lower(error), code)

\* the messages of the exceptions an operation raises in the model: two
\* transient ones (one of them in capitals) and two permanent ones
Errors ==
    { <<"5", "0", "3">>, <<"T", "i", "m", "e", "o", "u", "t">>,
      <<"4", "0", "4">>, <<"5", "0", "0">> }

\* what a call of the operation can end with: a value, an Exception with a
\* message, or a KeyboardInterrupt delivered while it runs
Values == {<<>>, <<"x">>}
Returned(v) == [kind |-> "value", val |-> v]
Raised(e) == [kind |-> "Exception", val |-> e]
Interrupted == [kind |-> "KeyboardInterrupt", val |-> <<>>]
Failures == {Raised(e) : e \in Errors} \cup {Interrupted}

RECURSIVE Pow2(_)
Pow2(n) == IF n = 0 THEN 1 ELSE 2 * Pow2(n - 1)

----------------------------------------------------------------------------
(* Content Validator *)

MIN_VALID_PDF_SIZE == 100000
CAPTCHA_CHECK_BYTES == 1024

\* a file is its size in bytes and its leading bytes
NoFile == [size |-> -1, head |-> <<>>]
EmptyFile == [size |-> 0, head |-> <<>>]

PdfHead == <<"%", "P", "D", "F">>
HtmlHead == <<"<", "H", "T", "M", "L">>

\* the bodies a document fetch delivers in the model: a PDF and a block page,
\* each one byte below and exactly at the size limit
Contents ==
    {[size |-> n, head |-> h] : n \in {MIN_VALID_PDF_SIZE - 1, MIN_VALID_PDF_SIZE},
                                h \in {PdfHead, HtmlHead}}

\* f.read(n): at most the first n bytes
read(f, n) == SubSeq(f.head, 1, IF Len(f.head) < n THEN Len(f.head) ELSE n)

CaptchaMarkers ==
    { <<"<", "h", "t", "m", "l">>,
      <<"c", "a", "p", "t", "c", "h", "a">>,
      <<"<", "!", "d", "o", "c", "t", "y", "p", "e">> }

\* a size test that lets a file of exactly the limit through to the scan
is_captcha_gt(f) ==
    IF f.size > MIN_VALID_PDF_SIZE THEN FALSE
    ELSE \E m \in CaptchaMarkers : Contains(lower(read(f, CAPTCHA_CHECK_BYTES)), m)

is_captcha(f) ==
    IF f.size >= MIN_VALID_PDF_SIZE THEN FALSE
    ELSE \E m \in CaptchaMarkers : Contains(lower(read(f, CAPTCHA_CHECK_BYTES)), m)

----------------------------------------------------------------------------
(* Retry Engine: retry_with_backoff *)

\* the entries of rbLog: a call of the operation with its outcome, the start
\* of a time.sleep(secs), and a KeyboardInterrupt that ends the current sleep
NoOutcome == [kind |-> "none", val |-> <<>>]
OpCall(outcome) == [ev |-> "op", out |-> outcome, secs |-> 0]
Sleep(secs) == [ev |-> "sleep", out |-> NoOutcome, secs |-> secs]
Cancel == [ev |-> "cancel", out |-> NoOutcome, secs |-> 0]

\* the notices written to stderr (lines 163, 168, 171)
RetryNotice(a, n, w) == [kind |-> "retry", attempt |-> a, of |-> n, wait |-> w, msg |-> <<>>]
ErrorNotice(e) == [kind |-> "error", attempt |-> 0, of |-> 0, wait |-> 0, msg |-> e]
CancelNotice == [kind |-> "cancelled", attempt |-> 0, of |-> 0, wait |-> 0, msg |-> <<>>]

\* an except clause that lets permanent errors through
Caught_onlyTransient(outcome) ==
    outcome.kind = "Exception" /\ is_retryable_error(outcome.val)

\* "except Exception": every Exception, but not a KeyboardInterrupt
Caught(outcome) == outcome.kind = "Exception"

\* the retry test without the limit on the attempts
ShouldRetry_noLimit(attempt, n, e) == is_retryable_error(e)

\* the retry test with "or" for "and"
ShouldRetry_or(attempt, n, e) == attempt < n - 1 \/ is_retryable_error(e)

\* line 161: retry when attempts remain and the error is retryable
ShouldRetry(attempt, n, e) == attempt < n - 1 /\ is_retryable_error(e)

\* a backoff that is linear in the attempt
WaitTime_linear(attempt) == attempt + 1

\* line 162: wait_time = 2 ** attempt
WaitTime(attempt) == Pow2(attempt)

\* "return operation() or None"
ReturnOf_falsyToNone(v) == IF v = <<>> THEN None ELSE Some(v)

\* line 159: return operation()
ReturnOf(v) == Some(v)

\* a paper id that is the whole link
paper_id_whole(lnk) == lnk

\* line 236: link.split('/')[-1]
paper_id(lnk) == split(lnk, "/")[Len(split(lnk, "/"))]

\* s.replace(old, new) for single characters
replace(s, old, new) == [i \in 1..Len(s) |-> IF s[i] = old THEN new ELSE s[i]]

\* line 237: the name of the local file
file_name(lnk) == replace(paper_id(lnk), "/", "-") \o <<".", "p", "d", "f">>

\* os.path.join(a, b) on POSIX
os_path_join(a, b) ==
    IF b # <<>> /\ b[1] = "/" THEN b
    ELSE IF a = <<>> \/ a[Len(a)] = "/" THEN a \o b
    ELSE a \o <<"/">> \o b

MaxPapers == 2

\* the links of the records of a result list, in the order of the list: the
\* entries of a feed have distinct ids, with distinct last segments
LinkNames == << <<"x", "/", "1">>, <<"x", "/", "2">>, <<"x", "/", "3">>, <<"x", "/", "4">> >>

\* or with last segments that repeat under different archives, as in
\* hep-th/9901001 and math/9901001
ArchiveLinkNames == << <<"h", "/", "1">>, <<"m", "/", "1">>, <<"h", "/", "2">>, <<"m", "/", "2">> >>

Links == {LinkNames[k] : k \in 1..MaxPapers} \cup {ArchiveLinkNames[k] : k \in 1..MaxPapers}

\* the names of the local files of the links
FileNames == {file_name(l) : l \in Links}

NoFeed == [wellFormed |-> TRUE, entries |-> <<>>]

IdleBatch ==
    /\ papers = <<>>
    /\ dpIndices = None
    /\ dpPc = "idle"
    /\ dpI = 0
    /\ ok = 0
    /\ captcha_count = 0
    /\ fs = [f \in FileNames |-> NoFile]
    /\ dpLog = <<>>

IdleCaptcha ==
    /\ capFile = NoFile
    /\ capPc = "idle"
    /\ capResult = FALSE

IdleSearch ==
    /\ since = None
    /\ feed = NoFeed
    /\ srPc = "idle"
    /\ srParsed = FALSE
    /\ srResult = <<>>

NoArgs == [env |-> FALSE, n |-> None, t |-> None, d |-> None]

IdlePath ==
    /\ pnLink = <<>>
    /\ pnDir = <<>>
    /\ pnPc = "idle"
    /\ pnPath = <<>>

IdleMain ==
    /\ args = NoArgs
    /\ mainPc = "idle"
    /\ stdout = <<>>
    /\ exitStatus = -1
    /\ mainLog = <<>>

IdleParse ==
    /\ spec = None
    /\ total = 0
    /\ piPc = "idle"
    /\ piResult = None

IdleDownload ==
    /\ dirExists = TRUE
    /\ file = NoFile
    /\ dlPc = "idle"
    /\ dlAttempt = 0
    /\ dlResult = "none"
    /\ dlLog = <<>>
    /\ dlLeft = NoFile

IdleRetry ==
    /\ rbPc = "idle"
    /\ rbAttempt = 0
    /\ rbResult = None
    /\ rbLog = <<>>

InitRetry ==
    /\ retryAttempts \in RetryAttemptsRange
    /\ stderr = <<>>
    /\ rbPc = "try"
    /\ rbAttempt = 0
    /\ rbResult = None
    /\ rbLog = <<>>
    /\ IdleParse
    /\ IdleDownload
    /\ IdleBatch
    /\ IdleCaptcha
    /\ IdleSearch
    /\ IdlePath
    /\ IdleMain

\* the operation returns v: retry_with_backoff returns it
RetryOpReturns ==
    /\ rbPc = "try"
    /\ \E v \in Values :
        /\ rbLog' = Append(rbLog, OpCall(Returned(v)))
        /\ rbResult' = ReturnOf(v)
    /\ rbPc' = "returned"
    /\ UNCHANGED <<rbAttempt, stderr, retryAttempts, parseVars, dlVars, batchVars, captchaVars, searchVars, pathVars, mainVars>>

\* the operation fails: an uncaught failure leaves retry_with_backoff as it
\* is; a caught one starts a backoff sleep or ends the call with None
RetryOpFails ==
    /\ rbPc = "try"
    /\ \E f \in Failures :
        IF ~Caught(f)
        THEN /\ rbLog' = Append(rbLog, OpCall(f))
             /\ rbPc' = "raised"
             /\ UNCHANGED <<stderr, rbResult>>
        ELSE IF ShouldRetry(rbAttempt, retryAttempts, f.val)
        THEN /\ rbLog' = rbLog \o <<OpCall(f), Sleep(WaitTime(rbAttempt))>>
             /\ stderr' = Append(stderr, RetryNotice(rbAttempt + 1, retryAttempts, WaitTime(rbAttempt)))
             /\ rbPc' = "sleep"
             /\ UNCHANGED rbResult
        ELSE /\ rbLog' = Append(rbLog, OpCall(f))
             /\ stderr' = Append(stderr, ErrorNotice(f.val))
             /\ rbResult' = None
             /\ rbPc' = "returned"
    /\ UNCHANGED <<rbAttempt, retryAttempts, parseVars, dlVars, batchVars, captchaVars, searchVars, pathVars, mainVars>>

\* time.sleep(wait_time) returns: the for loop takes the next attempt of
\* range(DEFAULT_RETRY_ATTEMPTS), or ends, and the function returns None
RetrySleepDone ==
    /\ rbPc = "sleep"
    /\ rbAttempt' = rbAttempt + 1
    /\ IF rbAttempt + 1 < retryAttempts
       THEN rbPc' = "try" /\ UNCHANGED rbResult
       ELSE rbPc' = "returned" /\ rbResult' = None
    /\ UNCHANGED <<rbLog, stderr, retryAttempts, parseVars, dlVars, batchVars, captchaVars, searchVars, pathVars, mainVars>>

\* a cancelled sleep that is taken for a finished one
RetrySleepInterrupted_goesOn ==
    /\ rbPc = "sleep"
    /\ rbLog' = Append(rbLog, Cancel)
    /\ rbAttempt' = rbAttempt + 1
    /\ rbPc' = "try"
    /\ stderr' = Append(stderr, CancelNotice)
    /\ UNCHANGED <<rbResult, retryAttempts, parseVars, dlVars, batchVars, captchaVars, searchVars, pathVars, mainVars>>

\* time.sleep(wait_time) raises KeyboardInterrupt: "Cancelled." and None
RetrySleepInterrupted ==
    /\ rbPc = "sleep"
    /\ rbLog' = Append(rbLog, Cancel)
    /\ stderr' = Append(stderr, CancelNotice)
    /\ rbResult' = None
    /\ rbPc' = "returned"
    /\ UNCHANGED <<rbAttempt, retryAttempts, parseVars, dlVars, batchVars, captchaVars, searchVars, pathVars, mainVars>>

NextRetry ==
    \/ RetryOpReturns
    \/ RetryOpFails
    \/ RetrySleepDone
    \/ RetrySleepInterrupted

SpecRetry == InitRetry /\ [][NextRetry]_vars

----------------------------------------------------------------------------
(* Per-item download: download and its inner fetch_pdf *)

\* the entries of dlLog, as in rbLog: a call of fetch_pdf with its outcome,
\* the start of a sleep, a KeyboardInterrupt that ends the current sleep
DlCall(outcome) == OpCall(outcome)
DlSleep(secs) == Sleep(secs)
DlCancel == Cancel

Notice(kind) == [kind |-> kind, attempt |-> 0, of |-> 0, wait |-> 0, msg |-> <<>>]
DlRetryNotice(w) == [kind |-> "retry", attempt |-> 0, of |-> 0, wait |-> w, msg |-> <<>>]

\* the points at which fetch_pdf can fail: urlopen or open (nothing written),
\* r.read() (the file is created and empty), r.close() (the file is written)
Stages == {"urlopen", "read", "close"}

\* the file at path when fetch_pdf fails at a stage, body being the response
Written(stage, old, body) ==
    CASE stage = "urlopen" -> old
      [] stage = "read" -> EmptyFile
      [] stage = "close" -> body

\* a fetch_pdf that leaves the block page on disk
FileAfterFetch_kept(body) == body

\* lines 247-254: the body is written; a block page is removed again
FileAfterFetch(body) == IF is_captcha(body) THEN NoFile ELSE body

\* lines 251-254 and 259-263: what download returns for a fetched body
FetchResult(body) == IF is_captcha(body) THEN "captcha" ELSE "True"

\* an except clause without the cleanup
ExceptCleanup_none(f) == f

\* lines 265-266: if os.path.exists(path): os.remove(path)
ExceptCleanup(f) == NoFile

\* line 264: "except Exception"
DlCaught(outcome) == outcome.kind = "Exception"

\* a retry test that does not consult the error classifier
DlShouldRetry_anyError(attempt, n, e) == attempt < n - 1

\* line 268
DlShouldRetry(attempt, n, e) == attempt < n - 1 /\ is_retryable_error(e)

\* line 269
DlWaitTime(attempt) == Pow2(attempt)

InitDownload ==
    /\ retryAttempts \in RetryAttemptsRange
    /\ stderr = <<>>
    /\ dirExists \in BOOLEAN
    /\ file \in (IF dirExists THEN Contents \cup {NoFile} ELSE {NoFile})
    /\ dlPc = "init"
    /\ dlAttempt = 0
    /\ dlResult = "none"
    /\ dlLog = <<>>
    /\ dlLeft = NoFile
    /\ IdleParse
    /\ IdleRetry
    /\ IdleBatch
    /\ IdleCaptcha
    /\ IdleSearch
    /\ IdlePath
    /\ IdleMain

\* a DownloadInit that reports the failure of os.makedirs and goes on
DownloadInit_goesOn ==
    /\ dlPc = "init"
    /\ \E made \in BOOLEAN :
        IF ~dirExists /\ ~made
        THEN /\ stderr' = Append(stderr, Notice("mkdir-error"))
             /\ dlPc' = "fetch"
             /\ UNCHANGED <<dirExists, dlResult>>
        ELSE /\ dirExists' = TRUE
             /\ stderr' = Append(stderr, Notice("progress"))
             /\ dlPc' = "fetch"
             /\ UNCHANGED dlResult
    /\ UNCHANGED <<file, dlAttempt, dlLog, dlLeft, retryAttempts, parseVars, retryVars, batchVars, captchaVars, searchVars, pathVars, mainVars>>

\* lines 229-240: the output directory is created when missing; a failure of
\* os.makedirs ends the call with False, otherwise the path is derived and
\* the progress prefix written
DownloadInit ==
    /\ dlPc = "init"
    /\ \E made \in BOOLEAN :
        IF ~dirExists /\ ~made
        THEN /\ stderr' = Append(stderr, Notice("mkdir-error"))
             /\ dlResult' = "False"
             /\ dlPc' = "returned"
             /\ UNCHANGED dirExists
        ELSE /\ dirExists' = TRUE
             /\ stderr' = Append(stderr, Notice("progress"))
             /\ dlPc' = "fetch"
             /\ UNCHANGED dlResult
    /\ UNCHANGED <<file, dlAttempt, dlLog, dlLeft, retryAttempts, parseVars, retryVars, batchVars, captchaVars, searchVars, pathVars, mainVars>>

\* fetch_pdf returns: the body was written and validated
DownloadFetchReturns ==
    /\ dlPc = "fetch"
    /\ \E body \in Contents :
        /\ dlLog' = Append(dlLog, DlCall(Returned(body)))
        /\ file' = FileAfterFetch(body)
        /\ dlLeft' = FileAfterFetch(body)
        /\ dlResult' = FetchResult(body)
        /\ stderr' = Append(stderr, Notice(IF FetchResult(body) = "captcha" THEN "CAPTCHA" ELSE "OK"))
    /\ dlPc' = "returned"
    /\ UNCHANGED <<dirExists, dlAttempt, retryAttempts, parseVars, retryVars, batchVars, captchaVars, searchVars, pathVars, mainVars>>

\* fetch_pdf fails at some stage: an uncaught failure leaves download with
\* the file as it is; a caught one removes the file, then a backoff sleep
\* starts or the call ends with False
DownloadFetchFails ==
    /\ dlPc = "fetch"
    /\ \E f \in Failures, stage \in Stages, body \in Contents :
        LET left == Written(stage, file, body) IN
        /\ dlLeft' = left
        /\ IF ~DlCaught(f)
           THEN /\ dlLog' = Append(dlLog, DlCall(f))
                /\ file' = left
                /\ dlPc' = "raised"
                /\ UNCHANGED <<stderr, dlResult>>
           ELSE /\ file' = ExceptCleanup(left)
                /\ IF DlShouldRetry(dlAttempt, retryAttempts, f.val)
                   THEN /\ dlLog' = dlLog \o <<DlCall(f), DlSleep(DlWaitTime(dlAttempt))>>
                        /\ stderr' = Append(stderr, DlRetryNotice(DlWaitTime(dlAttempt)))
                        /\ dlPc' = "sleep"
                        /\ UNCHANGED dlResult
                   ELSE /\ dlLog' = Append(dlLog, DlCall(f))
                        /\ stderr' = Append(stderr, Notice("Err"))
                        /\ dlResult' = "False"
                        /\ dlPc' = "returned"
    /\ UNCHANGED <<dirExists, dlAttempt, retryAttempts, parseVars, retryVars, batchVars, captchaVars, searchVars, pathVars, mainVars>>

\* time.sleep(wait_time) returns: the for loop takes the next attempt, or
\* ends, and the function returns None
DownloadSleepDone ==
    /\ dlPc = "sleep"
    /\ dlAttempt' = dlAttempt + 1
    /\ IF dlAttempt + 1 < retryAttempts
       THEN dlPc' = "fetch" /\ UNCHANGED dlResult
       ELSE dlPc' = "returned" /\ dlResult' = "None"
    /\ UNCHANGED <<dirExists, file, dlLog, dlLeft, stderr, retryAttempts, parseVars, retryVars, batchVars, captchaVars, searchVars, pathVars, mainVars>>

\* a backoff sleep without a handler: the KeyboardInterrupt leaves download
DownloadSleepInterrupted_raises ==
    /\ dlPc = "sleep"
    /\ dlLog' = Append(dlLog, DlCancel)
    /\ dlPc' = "raised"
    /\ UNCHANGED <<stderr, dlResult, dirExists, file, dlAttempt, dlLeft, retryAttempts, parseVars,
                   retryVars, batchVars, captchaVars, searchVars, pathVars, mainVars>>

\* time.sleep(wait_time) raises KeyboardInterrupt: "cancelled" and False
DownloadSleepInterrupted ==
    /\ dlPc = "sleep"
    /\ dlLog' = Append(dlLog, DlCancel)
    /\ stderr' = Append(stderr, Notice("cancelled"))
    /\ dlResult' = "False"
    /\ dlPc' = "returned"
    /\ UNCHANGED <<dirExists, file, dlAttempt, dlLeft, retryAttempts, parseVars, retryVars, batchVars, captchaVars, searchVars, pathVars, mainVars>>

NextDownload ==
    \/ DownloadInit
    \/ DownloadFetchReturns
    \/ DownloadFetchFails
    \/ DownloadSleepDone
    \/ DownloadSleepInterrupted

SpecDownload == InitDownload /\ [][NextDownload]_vars

-----------------------------------------------------------------------------
(* The two retry loops one after the other: retry_with_backoff, then the   *)
(* loop of download against the same failures and the same cancellations   *)

MaxBothAttempts == 3

\* what the environment did at an event of a log: a call succeeded, failed
\* with a message or was interrupted, or a sleep was cancelled
InputOf(e) ==
    IF e.ev = "cancel" THEN <<"cancel">>
    ELSE IF e.out.kind = "value" THEN <<"ok">>
    ELSE IF e.out.kind = "Exception" THEN <<"error">> \o e.out.val
    ELSE <<"interrupt">>

RECURSIVE InputsOf(_)
InputsOf(log) ==
    IF log = <<>> THEN <<>>
    ELSE IF Head(log).ev = "sleep" THEN InputsOf(Tail(log))
    ELSE <<InputOf(Head(log))>> \o InputsOf(Tail(log))

IsPrefix(a, b) == Len(a) <= Len(b) /\ SubSeq(b, 1, Len(a)) = a

\* the two loops have met the same environment as far as both have got
SameEnvironment ==
    \/ IsPrefix(InputsOf(rbLog), InputsOf(dlLog))
    \/ IsPrefix(InputsOf(dlLog), InputsOf(rbLog))

InitBoth ==
    /\ retryAttempts \in 1..MaxBothAttempts
    /\ stderr = <<>>
    /\ rbPc = "try"
    /\ rbAttempt = 0
    /\ rbResult = None
    /\ rbLog = <<>>
    /\ dirExists = TRUE
    /\ file = NoFile
    /\ dlPc = "init"
    /\ dlAttempt = 0
    /\ dlResult = "none"
    /\ dlLog = <<>>
    /\ dlLeft = NoFile
    /\ IdleParse
    /\ IdleBatch
    /\ IdleCaptcha
    /\ IdleSearch
    /\ IdlePath
    /\ IdleMain

\* retry_with_backoff runs first
BothRetryStep == NextRetry

\* then the loop of download runs against what retry_with_backoff has met
BothDownloadStep ==
    /\ rbPc \in {"returned", "raised"}
    /\ NextDownload
    /\ SameEnvironment'

NextBoth ==
    \/ BothRetryStep
    \/ BothDownloadStep

SpecBoth == InitBoth /\ [][NextBoth]_vars

-----------------------------------------------------------------------------
(* Batch Downloader: download_papers(papers, output_dir, indices), with    *)
(* download running for one item at a time                                  *)

MaxBatchAttempts == 2

\* the lists of records a search can hand over: main leaves before the
\* download when there is none
PaperLists ==
    {[k \in 1..n |-> LinkNames[k]] : n \in 1..MaxPapers} \cup
    {[k \in 1..n |-> ArchiveLinkNames[k]] : n \in 1..MaxPapers}

\* the index lists parse_indices returns for a total: ascending, distinct,
\* non-empty, every index below the total
IndexLists(tot) ==
    {sorted(S) : S \in (SUBSET (0..(tot - 1))) \ {{}}}

\* a truth value that only tells None from the rest
Truthy_notNone(opt) == ~opt.isNone

\* the truth value of a list or None in "if indices"
Truthy(opt) == ~opt.isNone /\ opt.val # <<>>

\* a selection that ignores the indices
selected_papers_all == papers

\* line 355
selected_papers ==
    IF Truthy(dpIndices)
    THEN [k \in 1..Len(dpIndices.val) |-> papers[dpIndices.val[k] + 1]]
    ELSE papers

\* the events of a batch: an item ended with a result (cancelled: its
\* download was cancelled during a backoff sleep), a delay between two items
\* ran to its end, the delay was cancelled
ItemDone(link, result, cancelled) ==
    [ev |-> "item", link |-> link, result |-> result, cancelled |-> cancelled]
DelayDone == [ev |-> "delay", link |-> <<>>, result |-> "", cancelled |-> FALSE]
DelayCancelled == [ev |-> "cancel", link |-> <<>>, result |-> "", cancelled |-> FALSE]

\* the lines download_papers writes (lines 357, 359, 365, 378, 379, 382-389)
BatchNotice(kind, a, n) == [kind |-> kind, attempt |-> a, of |-> n, wait |-> 0, msg |-> <<>>]
Prefix(i, n) == BatchNotice("prefix", i, n)
Saved(k, n) == BatchNotice("saved", k, n)
SavedBeforeCancellation(k, n) == BatchNotice("saved before cancellation", k, n)
Blocked(c) == BatchNotice("CAPTCHA blocked", c, 0)
Hints == BatchNotice("hints", 0, 0)

\* lines 382-389: the final report
FinalReport(k, c, n) ==
    IF c > 0 THEN <<Saved(k, n), Blocked(c), Hints>> ELSE <<Saved(k, n)>>

\* lines 365-367: the prefix is written and download called for item i; out
\* is what stderr holds before
CallDownload(i, out) ==
    /\ dpI' = i
    /\ stderr' = Append(out, Prefix(i, Len(selected_papers)))
    /\ file' = fs[file_name(selected_papers[i])]
    /\ dlPc' = "init"
    /\ dlAttempt' = 0
    /\ dlResult' = "none"
    /\ dlLog' = <<>>
    /\ dlLeft' = NoFile
    /\ dpPc' = "item"

\* download is not running
DownloadOver ==
    /\ file' = NoFile
    /\ dlPc' = "idle"
    /\ dlAttempt' = 0
    /\ dlResult' = "none"
    /\ dlLog' = <<>>
    /\ dlLeft' = NoFile

InitBatch ==
    /\ retryAttempts \in 1..MaxBatchAttempts
    /\ stderr = <<>>
    /\ papers \in PaperLists
    /\ dpIndices \in {None} \cup {Some(l) : l \in IndexLists(Len(papers))}
    /\ dpPc = "start"
    /\ dpI = 0
    /\ ok = 0
    /\ captcha_count = 0
    /\ fs = [f \in FileNames |-> NoFile]
    /\ dpLog = <<>>
    /\ dirExists \in BOOLEAN
    /\ file = NoFile
    /\ dlPc = "idle"
    /\ dlAttempt = 0
    /\ dlResult = "none"
    /\ dlLog = <<>>
    /\ dlLeft = NoFile
    /\ IdleParse
    /\ IdleRetry
    /\ IdleCaptcha
    /\ IdleSearch
    /\ IdlePath
    /\ IdleMain

\* lines 355-367: the header, the rate notice for more than one item, the
\* counters, and the first item; with nothing selected the final report
BatchStart ==
    /\ dpPc = "start"
    /\ ok' = 0
    /\ captcha_count' = 0
    /\ LET n == Len(selected_papers)
           head == stderr \o (IF n > 1 THEN <<Notice("header"), Notice("rate")>> ELSE <<Notice("header")>>)
       IN IF n = 0
          THEN /\ stderr' = head \o FinalReport(0, 0, 0)
               /\ dpPc' = "done"
               /\ UNCHANGED <<dpI, file, dlPc, dlAttempt, dlResult, dlLog, dlLeft>>
          ELSE CallDownload(1, head)
    /\ UNCHANGED <<papers, dpIndices, fs, dpLog, dirExists, retryAttempts, parseVars, retryVars, captchaVars, searchVars, pathVars, mainVars>>

\* a count of saved items that takes every truthy result
OkAfter_anyTruthy(result) == IF result \in {"True", "captcha"} THEN ok + 1 ELSE ok

\* the counters after a result (lines 369-372)
OkAfter(result) == IF result # "captcha" /\ result = "True" THEN ok + 1 ELSE ok

CaptchaCountAfter_never(result) == captcha_count

CaptchaCountAfter(result) == IF result = "captcha" THEN captcha_count + 1 ELSE captcha_count

\* a loop that also sleeps after the last item
DelayFollows_always(i, n) == TRUE

\* line 374
DelayFollows(i, n) == i < n

\* lines 367-374 and 382-389: download returns; the result is counted, then
\* the delay starts or, after the last item, the final report is written
BatchItemReturned ==
    /\ dpPc = "item"
    /\ dlPc = "returned"
    /\ LET n == Len(selected_papers)
           link == selected_papers[dpI]
           cancelled == dlLog # <<>> /\ dlLog[Len(dlLog)] = DlCancel
       IN /\ ok' = OkAfter(dlResult)
          /\ captcha_count' = CaptchaCountAfter(dlResult)
          /\ fs' = [fs EXCEPT ![file_name(link)] = file]
          /\ dpLog' = Append(dpLog, ItemDone(link, dlResult, cancelled))
          /\ IF DelayFollows(dpI, n)
             THEN dpPc' = "delay" /\ UNCHANGED stderr
             ELSE /\ dpPc' = "done"
                  /\ stderr' = stderr \o FinalReport(OkAfter(dlResult), CaptchaCountAfter(dlResult), n)
    /\ DownloadOver
    /\ UNCHANGED <<papers, dpIndices, dpI, dirExists, retryAttempts, parseVars, retryVars, captchaVars, searchVars, pathVars, mainVars>>

\* download raises (a KeyboardInterrupt during the fetch): download_papers
\* has no handler around the call, the exception leaves it
BatchItemRaised ==
    /\ dpPc = "item"
    /\ dlPc = "raised"
    /\ fs' = [fs EXCEPT ![file_name(selected_papers[dpI])] = file]
    /\ dpPc' = "raised"
    /\ DownloadOver
    /\ UNCHANGED <<papers, dpIndices, dpI, ok, captcha_count, dpLog, stderr, dirExists, retryAttempts,
                   parseVars, retryVars, captchaVars, searchVars, pathVars, mainVars>>

\* line 376 returns: the next item
BatchDelayDone ==
    /\ dpPc = "delay"
    /\ dpLog' = Append(dpLog, DelayDone)
    /\ CallDownload(dpI + 1, stderr)
    /\ UNCHANGED <<papers, dpIndices, ok, captcha_count, fs, dirExists, retryAttempts,
                   parseVars, retryVars, captchaVars, searchVars, pathVars, mainVars>>

\* a cancelled delay that is taken for a finished one
BatchDelayInterrupted_goesOn ==
    /\ dpPc = "delay"
    /\ dpLog' = Append(dpLog, DelayCancelled)
    /\ CallDownload(dpI + 1, stderr)
    /\ UNCHANGED <<papers, dpIndices, ok, captcha_count, fs, dirExists, retryAttempts,
                   parseVars, retryVars, captchaVars, searchVars, pathVars, mainVars>>

\* lines 377-380: the delay is cancelled: the two lines, then sys.exit(130)
BatchDelayInterrupted ==
    /\ dpPc = "delay"
    /\ dpLog' = Append(dpLog, DelayCancelled)
    /\ stderr' = stderr \o <<Notice("cancelled by user"),
                             SavedBeforeCancellation(ok, Len(selected_papers))>>
    /\ dpPc' = "exit130"
    /\ UNCHANGED <<papers, dpIndices, dpI, ok, captcha_count, fs, retryAttempts,
                   dlVars, parseVars, retryVars, captchaVars, searchVars, pathVars, mainVars>>

NextBatch ==
    \/ BatchStart
    \/ BatchItemReturned
    \/ BatchItemRaised
    \/ BatchDelayDone
    \/ BatchDelayInterrupted
    \/ NextDownload

SpecBatch == InitBatch /\ [][NextBatch]_vars

----------------------------------------------------------------------------
(* Extractor: search(query, max_results, sort, since, categories), with    *)
(* retry_with_backoff running fetch_xml                                     *)

MaxEntries == 2
MaxSearchAttempts == 2

DATE_PREFIX_LENGTH == 10
DefaultMaxAuthors == 3

\* a child element of an entry as entry.find(...) sees it: absent (find
\* returns None), present without text (.text is None), or with a text
Missing == [tag |-> "missing", text |-> <<>>]
EmptyElem == [tag |-> "empty", text |-> <<>>]
Text(s) == [tag |-> "text", text |-> s]

Entry(pub, title, names, id, summary) ==
    [published |-> pub, title |-> title, authors |-> names, id |-> id, summary |-> summary]

Oct == <<"2", "0", "2", "5", "-", "1", "0", "-">>
Sep == <<"2", "0", "2", "5", "-", "0", "9", "-">>
Midnight == <<"T", "0", "0", ":", "0", "0", ":", "0", "0", "Z">>
LastSecond == <<"T", "2", "3", ":", "5", "9", ":", "5", "9", "Z">>

\* the entries of the feeds in the model: sound ones with zero, one and four
\* authors on four days, and ones with an element that is empty or absent
Entries ==
    { Entry(Text(Oct \o <<"1", "5">> \o LastSecond), Text(<<" ", "A", " ", " ", "b", " ">>),
            <<Text(<<"K">>)>>, Text(<<"a">>), Text(<<"s">>)),
      Entry(Text(Oct \o <<"1", "6">> \o LastSecond), Text(<<"B">>),
            <<Text(<<"K">>), Text(<<"L">>)>>, Text(<<"b">>), Text(<<"s", " ", " ", "t">>)),
      Entry(Text(Oct \o <<"1", "7">> \o Midnight), Text(<<"C">>),
            <<>>, Text(<<"c">>), Text(<<" ">>)),
      Entry(Text(Sep \o <<"3", "0">> \o Midnight), Text(<<"D">>),
            <<Text(<<"K">>), Text(<<"L">>), Text(<<"M">>), Text(<<"N">>)>>, Text(<<"d">>), Text(<<"s">>)),
      Entry(Text(Oct \o <<"1", "6">> \o Midnight), Text(<<"E">>),
            <<Text(<<"K">>)>>, EmptyElem, Text(<<"s">>)),
      Entry(Text(Oct \o <<"1", "6">> \o Midnight), EmptyElem,
            <<Text(<<"K">>)>>, Text(<<"f">>), Text(<<"s">>)),
      Entry(Missing, Text(<<"G">>),
            <<Text(<<"K">>)>>, Text(<<"g">>), Text(<<"s">>)),
      Entry(Text(Oct \o <<"1", "7">> \o Midnight), Text(<<"H">>),
            <<Text(<<"K">>), Missing>>, Text(<<"h">>), Text(<<"s">>)) }

\* the documents a response can hold: one that does not parse, and the
\* feeds of up to MaxEntries entries
Feeds ==
    {[wellFormed |-> FALSE, entries |-> <<>>]} \cup
    UNION {{[wellFormed |-> TRUE, entries |-> es] : es \in [1..n -> Entries]} : n \in 0..MaxEntries}

\* the cutoffs main computes: none, or a date as strftime('%Y-%m-%d') gives it
SinceValues ==
    {None} \cup {Some(Oct \o d) : d \in {<<"0", "1">>, <<"1", "6">>, <<"1", "7">>, <<"1", "8">>}}

\* the code points of the characters of a timestamp
Ord(c) ==
    CASE c = "-" -> 45 [] c = "0" -> 48 [] c = "1" -> 49 [] c = "2" -> 50 [] c = "3" -> 51
      [] c = "4" -> 52 [] c = "5" -> 53 [] c = "6" -> 54 [] c = "7" -> 55 [] c = "8" -> 56
      [] c = "9" -> 57 [] c = ":" -> 58 [] c = "T" -> 84 [] c = "Z" -> 90

\* a < b for Python strings
RECURSIVE StrLess(_, _)
StrLess(a, b) ==
    IF b = <<>> THEN FALSE
    ELSE IF a = <<>> THEN TRUE
    ELSE IF Head(a) # Head(b) THEN Ord(Head(a)) < Ord(Head(b))
    ELSE StrLess(Tail(a), Tail(b))

\* s[:n]
Slice(s, n) == SubSeq(s, 1, IF Len(s) < n THEN Len(s) ELSE n)

\* re.sub(r'\s+', ' ', s): every run of whitespace becomes one space
RECURSIVE Collapse(_)
Collapse(s) ==
    IF s = <<>> THEN <<>>
    ELSE IF Head(s) \in Whitespace THEN <<" ">> \o Collapse(lstrip(s))
    ELSE <<Head(s)>> \o Collapse(Tail(s))

Normalise(s) == Collapse(strip(s))

\* ", ".join(names)
RECURSIVE Join(_)
Join(names) ==
    IF names = <<>> THEN <<>>
    ELSE IF Len(names) = 1 THEN names[1]
    ELSE names[1] \o <<",", " ">> \o Join(Tail(names))

\* "%d" % n
DecimalDigits == <<"0", "1", "2", "3", "4", "5", "6", "7", "8", "9">>
RECURSIVE Decimal(_)
Decimal(n) ==
    IF n < 10 THEN <<DecimalDigits[n + 1]>>
    ELSE Decimal(n \div 10) \o <<DecimalDigits[(n % 10) + 1]>>

\* lines 204-207
author_str(names) ==
    Join(Slice(names, DefaultMaxAuthors)) \o
    (IF Len(names) > DefaultMaxAuthors
     THEN <<" ", "e", "t", " ", "a", "l", ".", " ", "(">> \o Decimal(Len(names)) \o <<")">>
     ELSE <<>>)

\* what the loop body does with an entry
Skip == [kind |-> "skip", paper |-> <<>>]
Raise == [kind |-> "raise", paper |-> <<>>]
Paper(p) == [kind |-> "paper", paper |-> p]

\* a filter that also drops the entries of the cutoff day
Skipped_orEqual(pub, sn) == Truthy(sn) /\ (StrLess(pub, sn.val) \/ pub = sn.val)

\* line 201
Skipped(pub, sn) == Truthy(sn) /\ StrLess(pub, sn.val)

\* line 213: entry.find('a:id', NS).text, None for an element without text
LinkOf(id) == IF id.tag = "empty" THEN None ELSE Some(id.text)

\* lines 200-215 for one entry: .text of an absent element, a slice or strip
\* of None, and a join over None raise
ExtractEntry(e, sn) ==
    IF e.published.tag # "text" THEN Raise
    ELSE LET pub == Slice(e.published.text, DATE_PREFIX_LENGTH) IN
         IF Skipped(pub, sn) THEN Skip
         ELSE IF \E k \in 1..Len(e.authors) : e.authors[k].tag = "missing" THEN Raise
         ELSE IF \E k \in 1..Len(Slice(e.authors, DefaultMaxAuthors)) : e.authors[k].tag = "empty"
              THEN Raise
         ELSE IF e.title.tag # "text" THEN Raise
         ELSE IF e.id.tag = "missing" THEN Raise
         ELSE IF e.summary.tag # "text" THEN Raise
         ELSE Paper([title |-> Some(Normalise(e.title.text)),
                     authors |-> Some(author_str([k \in 1..Len(e.authors) |-> e.authors[k].text])),
                     published |-> Some(pub),
                     link |-> LinkOf(e.id),
                     abstract |-> Some(Normalise(e.summary.text))])

\* lines 198-217: the loop over the entries, acc being papers so far; an
\* exception ends it
RECURSIVE ExtractAll(_, _, _)
ExtractAll(es, sn, acc) ==
    IF es = <<>> THEN [raised |-> FALSE, papers |-> acc]
    ELSE LET r == ExtractEntry(Head(es), sn) IN
         IF r.kind = "raise" THEN [raised |-> TRUE, papers |-> <<>>]
         ELSE IF r.kind = "skip" THEN ExtractAll(Tail(es), sn, acc)
         ELSE ExtractAll(Tail(es), sn, Append(acc, r.paper))

InitSearch ==
    /\ retryAttempts \in 1..MaxSearchAttempts
    /\ stderr = <<>>
    /\ since \in SinceValues
    /\ feed = NoFeed
    /\ srPc = "fetch"
    /\ srParsed = FALSE
    /\ srResult = <<>>
    /\ rbPc = "try"
    /\ rbAttempt = 0
    /\ rbResult = None
    /\ rbLog = <<>>
    /\ IdleParse
    /\ IdleDownload
    /\ IdleBatch
    /\ IdleCaptcha
    /\ IdlePath
    /\ IdleMain

\* a search that parses whatever came back
SearchFetchFailed_parses ==
    /\ srPc = "fetch"
    /\ rbPc = "returned"
    /\ ~Truthy(rbResult)
    /\ srParsed' = TRUE
    /\ srPc' = "raised"
    /\ UNCHANGED <<since, feed, srResult, retryAttempts, stderr, retryVars, parseVars, dlVars,
                   batchVars, captchaVars, pathVars, mainVars>>

\* lines 190-192: retry_with_backoff returned None or an empty text
SearchFetchFailed ==
    /\ srPc = "fetch"
    /\ rbPc = "returned"
    /\ ~Truthy(rbResult)
    /\ srResult' = <<>>
    /\ srPc' = "returned"
    /\ UNCHANGED <<since, feed, srParsed, retryAttempts, stderr, retryVars, parseVars, dlVars,
                   batchVars, captchaVars, pathVars, mainVars>>

\* a KeyboardInterrupt during fetch_xml leaves retry_with_backoff and search
SearchFetchRaised ==
    /\ srPc = "fetch"
    /\ rbPc = "raised"
    /\ srPc' = "raised"
    /\ UNCHANGED <<since, feed, srParsed, srResult, retryAttempts, stderr, retryVars, parseVars,
                   dlVars, batchVars, captchaVars, pathVars, mainVars>>

\* a search that answers a document that does not parse with no records
SearchParse_swallows ==
    /\ srPc = "fetch"
    /\ rbPc = "returned"
    /\ Truthy(rbResult)
    /\ srParsed' = TRUE
    /\ \E f \in Feeds :
        /\ feed' = f
        /\ IF ~f.wellFormed
           THEN srPc' = "returned" /\ srResult' = <<>>
           ELSE IF ExtractAll(f.entries, since, <<>>).raised
           THEN srPc' = "raised" /\ UNCHANGED srResult
           ELSE srPc' = "returned" /\ srResult' = ExtractAll(f.entries, since, <<>>).papers
    /\ UNCHANGED <<since, retryAttempts, stderr, retryVars, parseVars, dlVars, batchVars, captchaVars, pathVars, mainVars>>

\* lines 194-217: the text is parsed, f being the document it holds, one of
\* feeds, and the records are extracted; a document that does not parse and
\* an exception of the loop leave search
SearchParseOf(feeds) ==
    /\ srPc = "fetch"
    /\ rbPc = "returned"
    /\ Truthy(rbResult)
    /\ srParsed' = TRUE
    /\ \E f \in feeds :
        /\ feed' = f
        /\ IF ~f.wellFormed \/ ExtractAll(f.entries, since, <<>>).raised
           THEN srPc' = "raised" /\ UNCHANGED srResult
           ELSE srPc' = "returned" /\ srResult' = ExtractAll(f.entries, since, <<>>).papers
    /\ UNCHANGED <<since, retryAttempts, stderr, retryVars, parseVars, dlVars, batchVars, captchaVars, pathVars, mainVars>>

SearchParse == SearchParseOf(Feeds)

NextSearch ==
    \/ SearchFetchFailed
    \/ SearchFetchRaised
    \/ SearchParse
    \/ NextRetry

SpecSearch == InitSearch /\ [][NextSearch]_vars

----------------------------------------------------------------------------
(* The command: main(), with search and download_papers running inside it, *)
(* and the handler of KeyboardInterrupt around it (lines 510-547)          *)

\* lines 36 and 100
EXIT_SIGINT == 130
DEFAULT_PDF_DIR == <<"p", "a", "p", "e", "r", "s">>

\* a parsed command line: -e, -n, -t and the arguments of -d (None without -d)
CommandLine(env, n, t, d) == [env |-> env, n |-> n, t |-> t, d |-> d]

\* the command lines of the model
CommandLines ==
    { CommandLine(TRUE, None, None, None),
      CommandLine(TRUE, Some(0), None, Some(<<<<"o">>, <<"1">>, <<"2">>>>)),
      CommandLine(FALSE, Some(0), None, None),
      CommandLine(FALSE, None, Some(0), Some(<<>>)),
      CommandLine(FALSE, None, None, None),
      CommandLine(FALSE, Some(1), Some(1), None),
      CommandLine(FALSE, None, None, Some(<<>>)),
      CommandLine(FALSE, None, None, Some(<<<<"1">>>>)),
      CommandLine(FALSE, None, None, Some(<<<<"o">>>>)),
      CommandLine(FALSE, None, None, Some(<<<<>>>>)),
      CommandLine(FALSE, None, Some(1), Some(<<<<"o">>, <<"2">>>>)),
      CommandLine(FALSE, None, None, Some(<<<<"o">>, <<>>>>)),
      CommandLine(FALSE, None, None, Some(<<<<"o">>, <<"1">>, <<"2">>>>)) }

\* the truth value of an int or None in "if args.t"
TruthyInt(opt) == ~opt.isNone /\ opt.val # 0

\* the day the command runs, and line 519: the day args.t days before it
Today == 17
SinceOf(t) ==
    IF TruthyInt(t)
    THEN Some(Oct \o (IF Today - t.val < 10 THEN <<"0">> ELSE <<>>) \o Decimal(Today - t.val))
    ELSE None

\* the entries of the feeds main receives: two sound ones, of the day before
\* SinceOf(1) and of the day after, linking to LinkNames[1] and LinkNames[2]
MainEntries ==
    << Entry(Text(Oct \o <<"1", "5">> \o Midnight),
             Text(<<"T">>), <<Text(<<"K">>)>>, Text(LinkNames[1]), Text(<<"s">>)),
       Entry(Text(Oct \o <<"1", "7">> \o Midnight),
             Text(<<"U">>), <<Text(<<"K">>)>>, Text(LinkNames[2]), Text(<<"s">>)) >>

\* the documents main receives: one that does not parse, and the feeds of
\* the first entries of MainEntries
MainFeeds ==
    {[wellFormed |-> FALSE, entries |-> <<>>]} \cup
    {[wellFormed |-> TRUE, entries |-> [k \in 1..n |-> MainEntries[k]]] : n \in 0..Len(MainEntries)}

\* what stdout holds: the configuration, or the listing of a result list
ConfigText == [kind |-> "config", papers |-> <<>>]
Listing(ps) == [kind |-> "listing", papers |-> ps]

\* sys.exit(code), and an exception or a SystemExit leaving main
Exit(code) ==
    /\ mainPc' = "exited"
    /\ exitStatus' = code

\* line 34 with re.match: one or more digits, commas, hyphens, whitespace
MatchesIndicesPattern(s) ==
    /\ s # <<>>
    /\ \A k \in 1..Len(s) : s[k] \in Digits \cup Whitespace \cup {",", "-"}

\* lines 442-451: the directory and the index spec of the arguments of -d
OutputDirOf(d) ==
    IF Len(d) = 2 THEN d[1]
    ELSE IF Len(d) = 1 /\ ~MatchesIndicesPattern(d[1]) THEN d[1]
    ELSE DEFAULT_PDF_DIR

IndicesSpecOf(d) ==
    IF Len(d) = 2 THEN Some(d[2])
    ELSE IF Len(d) = 1 /\ MatchesIndicesPattern(d[1]) THEN Some(d[1])
    ELSE None

\* lines 430-470: parse_download_args(d, num), dirError being whether
\* validate_download_dir reports the directory; the exit with its message,
\* or the directory and the indices
Rejected(msg) == [exit |-> TRUE, msg |-> msg, output_dir |-> None, indices |-> None]
Accepted(dir, ind) == [exit |-> FALSE, msg |-> "", output_dir |-> dir, indices |-> ind]

\* a parse_download_args that takes a rejected index spec for no spec
parse_download_args_noneIsAll(d, num, dirError) ==
    IF d.isNone THEN Accepted(None, None)
    ELSE IF Len(d.val) > 2 THEN Rejected("at most 2 arguments")
    ELSE IF dirError THEN Rejected("Error (-d)")
    ELSE Accepted(Some(OutputDirOf(d.val)),
                  IF Truthy(IndicesSpecOf(d.val)) THEN parse_indices(IndicesSpecOf(d.val), num) ELSE None)

parse_download_args(d, num, dirError) ==
    IF d.isNone THEN Accepted(None, None)
    ELSE IF Len(d.val) > 2 THEN Rejected("at most 2 arguments")
    ELSE IF dirError THEN Rejected("Error (-d)")
    ELSE IF Truthy(IndicesSpecOf(d.val))
         THEN IF parse_indices(IndicesSpecOf(d.val), num).isNone
              THEN Rejected("Invalid index specification")
              ELSE Accepted(Some(OutputDirOf(d.val)), parse_indices(IndicesSpecOf(d.val), num))
         ELSE Accepted(Some(OutputDirOf(d.val)), None)

InitMain ==
    /\ args \in CommandLines
    /\ mainPc = "start"
    /\ stdout = <<>>
    /\ exitStatus = -1
    /\ mainLog = <<>>
    /\ retryAttempts \in 1..MaxBatchAttempts
    /\ stderr = <<>>
    /\ IdleParse
    /\ IdleRetry
    /\ IdleDownload
    /\ IdleBatch
    /\ IdleCaptcha
    /\ IdleSearch
    /\ IdlePath

\* lines 511-522, with show_config and validate_cli_args: the configuration
\* display, the checks of -n and -t, then the call of search
MainStart ==
    /\ mainPc = "start"
    /\ IF args.env
       THEN /\ stdout' = Append(stdout, ConfigText)
            /\ mainLog' = Append(mainLog, "show_config")
            /\ Exit(0)
            /\ UNCHANGED <<stderr, searchVars, retryVars>>
       ELSE IF ~args.n.isNone /\ args.n.val < 1
       THEN /\ stderr' = Append(stderr, Notice("Error: -n must be at least 1"))
            /\ Exit(1)
            /\ UNCHANGED <<stdout, mainLog, searchVars, retryVars>>
       ELSE IF ~args.t.isNone /\ args.t.val < 1
       THEN /\ stderr' = Append(stderr, Notice("Error: -t must be at least 1"))
            /\ Exit(1)
            /\ UNCHANGED <<stdout, mainLog, searchVars, retryVars>>
       ELSE /\ since' = SinceOf(args.t)
            /\ srPc' = "fetch"
            /\ rbPc' = "try"
            /\ mainPc' = "search"
            /\ mainLog' = Append(mainLog, "search")
            /\ UNCHANGED <<stdout, exitStatus, stderr, feed, srParsed, srResult, rbAttempt, rbResult, rbLog>>
    /\ UNCHANGED <<args, retryAttempts, parseVars, dlVars, batchVars, captchaVars, pathVars>>

\* search is left by an exception: a KeyboardInterrupt reaches the handler
\* of lines 543-547, any other one ends the interpreter with a traceback
MainSearchRaised ==
    /\ mainPc = "search"
    /\ srPc = "raised"
    /\ IF rbPc = "raised"
       THEN /\ stderr' = Append(stderr, Notice("Interrupted."))
            /\ Exit(EXIT_SIGINT)
       ELSE /\ stderr' = Append(stderr, Notice("Traceback"))
            /\ Exit(1)
    /\ UNCHANGED <<args, stdout, mainLog, retryAttempts, searchVars, retryVars, parseVars, dlVars,
                   batchVars, captchaVars, pathVars>>

\* retry_with_backoff is not running
RetryOver ==
    /\ rbPc' = "idle"
    /\ rbAttempt' = 0
    /\ rbResult' = None
    /\ rbLog' = <<>>

\* a main that lists nothing
MainSearchReturned_silent ==
    /\ mainPc = "search"
    /\ srPc = "returned"
    /\ IF srResult = <<>>
       THEN /\ stderr' = Append(stderr, Notice("No papers found matching your query."))
            /\ Exit(1)
            /\ UNCHANGED <<stdout, mainLog>>
       ELSE /\ mainLog' = Append(mainLog, "format_papers")
            /\ mainPc' = "download_args"
            /\ UNCHANGED <<stdout, stderr, exitStatus>>
    /\ RetryOver
    /\ UNCHANGED <<args, retryAttempts, searchVars, parseVars, dlVars, batchVars,
                   captchaVars, pathVars>>

\* lines 523-528: search returned, the frame of retry_with_backoff is gone;
\* without papers the error and exit 1, else format_papers prints the listing
MainSearchReturned ==
    /\ mainPc = "search"
    /\ srPc = "returned"
    /\ IF srResult = <<>>
       THEN /\ stderr' = Append(stderr, Notice("No papers found matching your query."))
            /\ Exit(1)
            /\ UNCHANGED <<stdout, mainLog>>
       ELSE /\ stdout' = Append(stdout, Listing(srResult))
            /\ mainLog' = Append(mainLog, "format_papers")
            /\ mainPc' = "download_args"
            /\ UNCHANGED <<stderr, exitStatus>>
    /\ RetryOver
    /\ UNCHANGED <<args, retryAttempts, searchVars, parseVars, dlVars, batchVars,
                   captchaVars, pathVars>>

\* the call of download_papers(papers, output_dir, indices) of line 534
StartDownloadPapers(ind) ==
    /\ papers' = [k \in 1..Len(srResult) |-> srResult[k].link.val]
    /\ dpIndices' = ind
    /\ dpPc' = "start"
    /\ dirExists' \in BOOLEAN
    /\ mainPc' = "download"

\* a parse_download_args that reports on stdout
MainParseDownloadArgs_stdout ==
    /\ mainPc = "download_args"
    /\ \E dirError \in BOOLEAN :
        LET r == parse_download_args(args.d, Len(srResult), dirError) IN
        IF r.exit
        THEN /\ stdout' = Append(stdout, Notice(r.msg))
             /\ mainLog' = Append(mainLog, "parse_download_args")
             /\ Exit(1)
             /\ UNCHANGED <<stderr, papers, dpIndices, dpPc, dirExists>>
        ELSE IF Truthy(r.output_dir)
        THEN /\ StartDownloadPapers(r.indices)
             /\ mainLog' = mainLog \o <<"parse_download_args", "download_papers">>
             /\ UNCHANGED <<stderr, stdout, exitStatus>>
        ELSE /\ Exit(0)
             /\ mainLog' = Append(mainLog, "parse_download_args")
             /\ UNCHANGED <<stderr, stdout, papers, dpIndices, dpPc, dirExists>>
    /\ UNCHANGED <<args, retryAttempts, searchVars, retryVars, parseVars, captchaVars, pathVars,
                   file, dlPc, dlAttempt, dlResult, dlLog, dlLeft, dpI, ok, captcha_count, fs, dpLog>>

\* lines 530-534: parse_download_args reports and exits, or download_papers
\* is called for a directory that is not empty, or main returns
MainParseDownloadArgs ==
    /\ mainPc = "download_args"
    /\ \E dirError \in BOOLEAN :
        LET r == parse_download_args(args.d, Len(srResult), dirError) IN
        IF r.exit
        THEN /\ stderr' = Append(stderr, Notice(r.msg))
             /\ mainLog' = Append(mainLog, "parse_download_args")
             /\ Exit(1)
             /\ UNCHANGED <<stdout, papers, dpIndices, dpPc, dirExists>>
        ELSE IF Truthy(r.output_dir)
        THEN /\ StartDownloadPapers(r.indices)
             /\ mainLog' = mainLog \o <<"parse_download_args", "download_papers">>
             /\ UNCHANGED <<stderr, stdout, exitStatus>>
        ELSE /\ Exit(0)
             /\ mainLog' = Append(mainLog, "parse_download_args")
             /\ UNCHANGED <<stderr, stdout, papers, dpIndices, dpPc, dirExists>>
    /\ UNCHANGED <<args, retryAttempts, searchVars, retryVars, parseVars, captchaVars, pathVars,
                   file, dlPc, dlAttempt, dlResult, dlLog, dlLeft, dpI, ok, captcha_count, fs, dpLog>>

\* download_papers returned and main with it, or it called sys.exit (line
\* 381), or a KeyboardInterrupt left it and reached the handler
MainDownloadOver ==
    /\ mainPc = "download"
    /\ dpPc \in {"done", "exit130", "raised"}
    /\ IF dpPc = "done" THEN Exit(0) /\ UNCHANGED stderr
       ELSE IF dpPc = "exit130" THEN Exit(EXIT_SIGINT) /\ UNCHANGED stderr
       ELSE /\ stderr' = Append(stderr, Notice("Interrupted."))
            /\ Exit(EXIT_SIGINT)
    /\ UNCHANGED <<args, stdout, mainLog, retryAttempts, searchVars, retryVars, parseVars, dlVars,
                   batchVars, captchaVars, pathVars>>

NextMain ==
    \/ MainStart
    \/ MainSearchRaised
    \/ MainSearchReturned
    \/ MainParseDownloadArgs
    \/ MainDownloadOver
    \/ SearchFetchFailed
    \/ SearchFetchRaised
    \/ SearchParseOf(MainFeeds)
    \/ NextBatch
    \/ NextRetry

SpecMain == InitMain /\ [][NextMain]_vars

----------------------------------------------------------------------------
(* The specification of is_captcha: files around the size limit whose      *)
(* text sits at the start, around the end of the scanned bytes, or past it *)

Pad(n) == [i \in 1..n |-> "x"]

\* texts a file can carry: the three markers in lower, upper and mixed case,
\* and texts that are no marker
CaptchaTexts ==
    { <<"<", "h", "t", "m", "l">>, <<"<", "H", "T", "M", "L">>, <<"<", "H", "t", "m", "l">>,
      <<"c", "a", "p", "t", "c", "h", "a">>, <<"C", "A", "P", "T", "C", "H", "A">>,
      <<"C", "a", "p", "t", "c", "h", "a">>,
      <<"<", "!", "d", "o", "c", "t", "y", "p", "e">>,
      <<"<", "!", "D", "O", "C", "T", "Y", "P", "E">>,
      <<"%", "P", "D", "F">>, <<"h", "t", "m", "l">>, <<"c", "a", "p", "t", "c", "h">> }

\* where the text starts: at the first byte, or so that it ends before, at
\* or after the last scanned byte
CaptchaPads == {0, 1} \cup ((CAPTCHA_CHECK_BYTES - 10)..CAPTCHA_CHECK_BYTES)

\* the files is_captcha is called on, of the given sizes
CaptchaFiles(sizes) ==
    {[size |-> n, head |-> Pad(p) \o t \o Pad(2)] :
        n \in sizes, p \in CaptchaPads, t \in CaptchaTexts}

InitCaptcha ==
    /\ capFile \in CaptchaFiles({2 * CAPTCHA_CHECK_BYTES, MIN_VALID_PDF_SIZE - 1,
                                 MIN_VALID_PDF_SIZE, MIN_VALID_PDF_SIZE + 1})
    /\ capPc = "call"
    /\ capResult = FALSE
    /\ retryAttempts = DefaultRetryAttempts
    /\ stderr = <<>>
    /\ IdleParse
    /\ IdleRetry
    /\ IdleDownload
    /\ IdleBatch
    /\ IdleSearch
    /\ IdlePath
    /\ IdleMain

\* lines 219-225
CallIsCaptcha ==
    /\ capPc = "call"
    /\ capResult' = is_captcha(capFile)
    /\ capPc' = "done"
    /\ UNCHANGED <<capFile, retryAttempts, stderr, parseVars, retryVars, dlVars, batchVars, searchVars, pathVars, mainVars>>

NextCaptcha == CallIsCaptcha

SpecCaptcha == InitCaptcha /\ [][NextCaptcha]_vars

----------------------------------------------------------------------------
(* The specification of the path derivation of download (lines 236-237):   *)
(* any link over a small alphabet, a few output directories                 *)

MaxLinkLen == 4

LinkAlphabet == {"/", "a", ".", "-"}

OutputDirs == { <<"p">>, <<"p", "/">>, <<"o", "/", "p">> }

InitPath ==
    /\ \E n \in 0..MaxLinkLen : pnLink \in [1..n -> LinkAlphabet]
    /\ pnDir \in OutputDirs
    /\ pnPc = "call"
    /\ pnPath = <<>>
    /\ retryAttempts = DefaultRetryAttempts
    /\ stderr = <<>>
    /\ IdleParse
    /\ IdleRetry
    /\ IdleDownload
    /\ IdleBatch
    /\ IdleCaptcha
    /\ IdleSearch
    /\ IdleMain

\* lines 236-237
DerivePath ==
    /\ pnPc = "call"
    /\ pnPath' = os_path_join(pnDir, file_name(pnLink))
    /\ pnPc' = "done"
    /\ UNCHANGED <<pnLink, pnDir, retryAttempts, stderr, parseVars, retryVars, dlVars, batchVars,
                   captchaVars, searchVars, mainVars>>

NextPath == DerivePath

SpecPath == InitPath /\ [][NextPath]_vars

----------------------------------------------------------------------------
(* The specification of parse_indices: any spec string, any total *)

\* the strings of length n over the alphabet
Strings(n) == [1..n -> Alphabet]

InitParse ==
    /\ \/ spec = None
       \/ \E n \in 0..MaxSpecLen : \E s \in Strings(n) : spec = Some(s)
    /\ total \in 0..MaxTotal
    /\ piPc = "call"
    /\ piResult = None
    /\ retryAttempts = DefaultRetryAttempts
    /\ stderr = <<>>
    /\ IdleRetry
    /\ IdleDownload
    /\ IdleBatch
    /\ IdleCaptcha
    /\ IdleSearch
    /\ IdlePath
    /\ IdleMain

CallParseIndices ==
    /\ piPc = "call"
    /\ piResult' = parse_indices(spec, total)
    /\ piPc' = "done"
    /\ UNCHANGED <<spec, total, retryAttempts, stderr, retryVars, dlVars, batchVars, captchaVars, searchVars, pathVars, mainVars>>

NextParse == CallParseIndices

SpecParse == InitParse /\ [][NextParse]_vars

----------------------------------------------------------------------------
(* Properties of retry_with_backoff *)

\* the error messages by kind, as the Error Classifier is specified
TransientErrors == {<<"5", "0", "3">>, <<"T", "i", "m", "e", "o", "u", "t">>}
PermanentErrors == {<<"4", "0", "4">>, <<"5", "0", "0">>}

IsOp(ev) == ev.ev = "op"
IsSleep(ev) == ev.ev = "sleep"
RbOps == SelectSeq(rbLog, IsOp)
RbSleeps == SelectSeq(rbLog, IsSleep)
FailedWith(ev, errs) == ev.ev = "op" /\ ev.out.kind = "Exception" /\ ev.out.val \in errs
Succeeded(ev) == ev.ev = "op" /\ ev.out.kind = "value"

\* C3: no error raised by the operation leaves retry_with_backoff: once the
\* operation has failed with an error and no backoff follows, the call has
\* returned None, and the call never ends by raising after such a failure.
C3_NeverPropagatesFailure ==
    /\ (rbLog # <<>> /\ FailedWith(rbLog[Len(rbLog)], Errors)) =>
            (rbPc = "returned" /\ rbResult = None)
    /\ rbPc = "raised" => ~FailedWith(rbLog[Len(rbLog)], Errors)
    /\ rbPc = "returned" => (rbResult = None \/ \E v \in Values : rbResult = Some(v))

\* the call returned None after a transient and then a permanent failure
C3_Witness ==
    /\ rbPc = "returned" /\ rbResult = None
    /\ Len(RbOps) = 2
    /\ FailedWith(RbOps[1], TransientErrors)
    /\ FailedWith(RbOps[2], PermanentErrors)

\* C4: when the first failure is not retryable, the operation is invoked
\* once, nothing sleeps, one error notice is written and None is returned,
\* whatever the configured number of attempts.
C4_NonRetryableFailsAtOnce ==
    (rbLog # <<>> /\ FailedWith(rbLog[1], PermanentErrors)) =>
        /\ rbPc = "returned" /\ rbResult = None
        /\ rbLog = <<OpCall(rbLog[1].out)>>
        /\ stderr = <<ErrorNotice(rbLog[1].out.val)>>

\* a permanent first failure with the largest number of attempts configured
C4_Witness ==
    /\ retryAttempts = MaxRetryAttempts
    /\ rbLog # <<>> /\ FailedWith(rbLog[1], PermanentErrors)
    /\ rbPc = "returned"

\* C5: k transient failures followed by a success end the call with that
\* value after k+1 invocations and k sleeps, sleep i (from 0) lasting 2^i
\* seconds and lying between the failed attempt i and attempt i+1.
C5_BackoffSchedule ==
    \A k \in 0..(retryAttempts - 1) :
        ( /\ Len(RbOps) = k + 1
          /\ \A i \in 1..k : FailedWith(RbOps[i], TransientErrors)
          /\ Succeeded(RbOps[k + 1]) ) =>
            /\ rbPc = "returned"
            /\ rbResult = Some(RbOps[k + 1].out.val)
            /\ Len(rbLog) = 2 * k + 1
            /\ Len(RbSleeps) = k
            /\ \A i \in 0..(k - 1) :
                /\ FailedWith(rbLog[2 * i + 1], TransientErrors)
                /\ rbLog[2 * i + 2] = Sleep(Pow2(i))
            /\ Succeeded(rbLog[2 * k + 1])

\* three transient failures, sleeps of 1, 2 and 4 seconds, then a value
C5_Witness ==
    /\ rbPc = "returned" /\ rbResult = Some(<<"x">>)
    /\ Len(RbOps) = 4
    /\ \A i \in 1..3 : FailedWith(RbOps[i], TransientErrors)
    /\ Len(RbSleeps) = 3
    /\ RbSleeps[3].secs = 4

\* C6: the operation is invoked at most DEFAULT_RETRY_ATTEMPTS times; when
\* all attempts fail with transient errors and no sleep is cancelled, it is
\* invoked exactly that many times, with one sleep fewer, none of them after
\* the last attempt, and None is returned.
C6_AttemptsBounded ==
    /\ Len(RbOps) <= retryAttempts
    /\ ( /\ rbPc = "returned"
         /\ \A i \in 1..Len(rbLog) : rbLog[i].ev # "cancel"
         /\ \A i \in 1..Len(RbOps) : FailedWith(RbOps[i], TransientErrors) ) =>
            /\ Len(RbOps) = retryAttempts
            /\ Len(RbSleeps) = retryAttempts - 1
            /\ IsOp(rbLog[Len(rbLog)])
            /\ rbResult = None

\* every one of three configured attempts failed with a transient error
C6_Witness ==
    /\ retryAttempts = 3
    /\ rbPc = "returned" /\ rbResult = None
    /\ Len(RbOps) = 3 /\ Len(RbSleeps) = 2
    /\ \A i \in 1..3 : FailedWith(RbOps[i], TransientErrors)

\* C7: a cancellation of a backoff sleep is the last thing that happens in
\* the call: None is returned, no operation call and no sleep follows it.
C7_CancelledSleepReturns ==
    \A i \in 1..Len(rbLog) :
        rbLog[i].ev = "cancel" =>
            /\ i = Len(rbLog)
            /\ IsSleep(rbLog[i - 1])
            /\ rbPc = "returned" /\ rbResult = None

\* the first sleep was cancelled with nine attempts still to go
C7_Witness ==
    /\ retryAttempts = MaxRetryAttempts
    /\ Len(RbOps) = 1
    /\ rbLog[Len(rbLog)] = Cancel
    /\ rbPc = "returned"

\* C8: retry_with_backoff returns None exactly when no attempt succeeded, so
\* None always tells "got nothing" from "got a value".
C8_SentinelUnambiguous ==
    rbPc = "returned" =>
        (rbResult = None <=> \A i \in 1..Len(rbLog) : ~Succeeded(rbLog[i]))

\* a success whose value is the empty string is returned as that value
C8_Witness ==
    /\ rbPc = "returned"
    /\ Succeeded(rbLog[Len(rbLog)])
    /\ rbLog[Len(rbLog)].out.val = <<>>
    /\ rbResult = Some(<<>>)

----------------------------------------------------------------------------
(* Properties of download *)

DlOps == SelectSeq(dlLog, IsOp)
DlSleeps == SelectSeq(dlLog, IsSleep)
Flagged(ev) == Succeeded(ev) /\ is_captcha(ev.out.val)

\* C9: a fetch whose file the validator flags ends download on that attempt:
\* the file is deleted and the outcome is "captcha"; nothing is fetched and
\* nothing sleeps after it, and "captcha" is returned for no other reason.
C9_BlockedEndsDownload ==
    /\ \A i \in 1..Len(dlLog) :
        Flagged(dlLog[i]) =>
            /\ i = Len(dlLog)
            /\ dlPc = "returned"
            /\ dlResult = "captcha"
            /\ file = NoFile
    /\ (dlPc = "returned" /\ dlResult = "captcha") =>
            (dlLog # <<>> /\ Flagged(dlLog[Len(dlLog)]))

\* a block page was fetched on the second attempt, after a transient failure
C9_Witness ==
    /\ dlPc = "returned" /\ dlResult = "captcha"
    /\ Len(DlOps) = 2
    /\ FailedWith(DlOps[1], TransientErrors)
    /\ Flagged(DlOps[2])
    /\ file = NoFile

\* C10: when download has returned False or "captcha" there is no file at
\* the item's path, and none while a backoff sleep runs or a later attempt
\* is about to start: what a failed fetch left behind is removed first.
C10_NoFileAfterFailure ==
    /\ (dlPc = "returned" /\ dlResult \in {"False", "captcha"}) => file = NoFile
    /\ dlPc = "sleep" => file = NoFile
    /\ (dlPc = "fetch" /\ dlAttempt > 0) => file = NoFile

\* the last of two failed attempts left a written file, and False came back
C10_Witness ==
    /\ dlPc = "returned" /\ dlResult = "False"
    /\ Len(DlOps) = 2
    /\ FailedWith(DlOps[2], Errors)
    /\ dlLeft \in Contents
    /\ file = NoFile

\* C12: when the output directory is missing and os.makedirs fails, download
\* reports the error and returns False at once: no fetch, no sleep, no file.
C12_MkdirFailureIsFinal ==
    (dlPc \notin {"idle", "init"} /\ ~dirExists) =>
        /\ dlPc = "returned" /\ dlResult = "False"
        /\ dlLog = <<>>
        /\ file = NoFile
        /\ stderr = <<Notice("mkdir-error")>>

\* the directory could not be created although ten attempts are configured
C12_Witness ==
    /\ retryAttempts = MaxRetryAttempts
    /\ dlPc = "returned" /\ dlResult = "False"
    /\ ~dirExists
    /\ stderr = <<Notice("mkdir-error")>>

----------------------------------------------------------------------------
(* Properties of download_papers *)

\* the item events of a batch log, in order
RECURSIVE ItemsOf(_)
ItemsOf(log) ==
    IF log = <<>> THEN <<>>
    ELSE IF Head(log).ev = "item" THEN <<Head(log)>> \o ItemsOf(Tail(log))
    ELSE ItemsOf(Tail(log))

\* the number of events of a kind in a log
RECURSIVE CountEv(_, _)
CountEv(log, ev) ==
    IF log = <<>> THEN 0
    ELSE (IF Head(log).ev = ev THEN 1 ELSE 0) + CountEv(Tail(log), ev)

\* the number of selected records, stated on the arguments
SelectedCount == IF dpIndices.isNone THEN Len(papers) ELSE Len(dpIndices.val)

\* C11: a cancellation during a backoff sleep of download ends that download
\* with False, no fetch following it, and leaves download_papers running: the
\* inter-item delay follows unless the item was the last, where the final
\* report follows; download_papers exits with 130 only from a cancelled
\* inter-item delay.
C11_BackoffCancelAbortsItemOnly ==
    /\ \A k \in 1..Len(dlLog) :
          dlLog[k] = DlCancel =>
              /\ k = Len(dlLog)
              /\ dlPc = "returned" /\ dlResult = "False"
              /\ dpPc = "item"
    /\ \A k \in 1..Len(dpLog) :
          (dpLog[k].ev = "item" /\ dpLog[k].cancelled) =>
              /\ dpLog[k].result = "False"
              /\ IF CountEv(SubSeq(dpLog, 1, k), "item") < SelectedCount
                 THEN \/ k = Len(dpLog) /\ dpPc = "delay"
                      \/ k < Len(dpLog) /\ dpLog[k + 1] = DelayCancelled
                      \/ /\ k < Len(dpLog) /\ dpLog[k + 1] = DelayDone
                         /\ dpI > CountEv(SubSeq(dpLog, 1, k), "item")
                 ELSE k = Len(dpLog) /\ dpPc = "done"
    /\ dpPc = "exit130" <=> (dpLog # <<>> /\ dpLog[Len(dpLog)] = DelayCancelled)
    /\ \A k \in 1..Len(dpLog) :
          dpLog[k] = DelayCancelled => k > 1 /\ dpLog[k - 1].ev = "item"

\* the first of two items was cancelled in its backoff sleep, the delay ran,
\* and the second item is being downloaded
C11_Witness ==
    /\ Len(dpLog) = 2
    /\ dpLog[1].ev = "item" /\ dpLog[1].cancelled /\ dpLog[1].result = "False"
    /\ dpLog[2] = DelayDone
    /\ dpPc = "item" /\ dpI = 2 /\ dlPc = "fetch"

\* the record the k-th selected item stands for, stated on the arguments
ExpectedLink(k) ==
    IF dpIndices.isNone THEN papers[k] ELSE papers[dpIndices.val[k] + 1]

\* the progress prefixes written so far
RECURSIVE PrefixesOf(_)
PrefixesOf(out) ==
    IF out = <<>> THEN <<>>
    ELSE IF Head(out).kind = "prefix" THEN <<Head(out)>> \o PrefixesOf(Tail(out))
    ELSE PrefixesOf(Tail(out))

\* the number of download calls made so far
DownloadCalls == Len(ItemsOf(dpLog)) + (IF dpPc \in {"item", "raised"} THEN 1 ELSE 0)

\* C13: the k-th download of a batch is of the record at position indices[k],
\* or of the k-th record when indices is null; a finished batch has made one
\* download per selected record, and the k-th progress prefix is [k/N] with N
\* the number of selected records.
C13_SelectionInOrder ==
    /\ \A k \in 1..Len(ItemsOf(dpLog)) : ItemsOf(dpLog)[k].link = ExpectedLink(k)
    /\ DownloadCalls <= SelectedCount
    /\ dpPc = "done" => DownloadCalls = SelectedCount
    /\ dpPc \notin {"idle", "start"} =>
          PrefixesOf(stderr) = [k \in 1..DownloadCalls |-> Prefix(k, SelectedCount)]

\* of two records only the second was selected, and the batch is finished
C13_Witness ==
    /\ papers = << <<"x", "/", "1">>, <<"x", "/", "2">> >>
    /\ dpIndices = Some(<<1>>)
    /\ dpPc = "done"
    /\ Len(dpLog) = 1 /\ dpLog[1].link = <<"x", "/", "2">>

\* C14: items and inter-item delays alternate, beginning with an item; a
\* delay runs only while a selected item is still to come, and a batch that
\* finished has slept once less than it has items.
C14_DelayBetweenItemsOnly ==
    /\ \A k \in 1..Len(dpLog) :
          IF k % 2 = 1 THEN dpLog[k].ev = "item"
          ELSE dpLog[k] = DelayDone \/ (dpLog[k] = DelayCancelled /\ k = Len(dpLog))
    /\ dpPc = "delay" =>
          /\ dpLog # <<>> /\ dpLog[Len(dpLog)].ev = "item"
          /\ CountEv(dpLog, "item") < SelectedCount
    /\ (dpLog # <<>> /\ dpLog[Len(dpLog)] = DelayDone) => dpPc \in {"item", "raised"}
    /\ dpPc = "done" =>
          /\ CountEv(dpLog, "item") = SelectedCount
          /\ CountEv(dpLog, "delay") = SelectedCount - 1
          /\ CountEv(dpLog, "cancel") = 0

\* a finished batch of two items, the first failed and the second blocked,
\* with the one delay between them
C14_Witness ==
    /\ dpPc = "done"
    /\ Len(dpLog) = 3
    /\ dpLog[1].result = "False"
    /\ dpLog[2] = DelayDone
    /\ dpLog[3].result = "captcha"

\* the number of items of a batch log that ended with a result
RECURSIVE CountResult(_, _)
CountResult(log, result) ==
    IF log = <<>> THEN 0
    ELSE (IF Head(log).ev = "item" /\ Head(log).result = result THEN 1 ELSE 0)
         + CountResult(Tail(log), result)

\* C15: once an inter-item delay was cancelled, download_papers has left
\* with status 130: no download runs or ran after it, and the last line
\* written is "<ok>/<total> saved before cancellation", ok being the number
\* of items before the delay that returned True and total the number of
\* selected items.
C15_CancelledDelayExits ==
    (dpLog # <<>> /\ dpLog[Len(dpLog)] = DelayCancelled) =>
        /\ dpPc = "exit130"
        /\ dlPc = "idle"
        /\ DownloadCalls = CountEv(dpLog, "item")
        /\ Len(stderr) >= 2
        /\ stderr[Len(stderr) - 1] = Notice("cancelled by user")
        /\ stderr[Len(stderr)] =
               SavedBeforeCancellation(CountResult(dpLog, "True"), SelectedCount)
        /\ \A k \in 1..Len(stderr) : stderr[k].kind # "saved"

\* the delay after the first of several items is cancelled: that item was
\* saved, the next one is never tried
C15_Witness ==
    /\ dpPc = "exit130"
    /\ SelectedCount >= 2
    /\ dpLog[1].result = "True"
    /\ dpLog[Len(dpLog)] = DelayCancelled
    /\ stderr[Len(stderr)] = SavedBeforeCancellation(1, SelectedCount)

\* C16: a batch that finished reports "<ok>/<total> saved" once, ok being
\* the number of items that returned True and total the number of selected
\* items; the blocked count and the hints follow if and only if some item
\* was blocked, the count being the number of blocked items.
C16_FinalReportCounts ==
    dpPc = "done" =>
        LET saved == Saved(CountResult(dpLog, "True"), SelectedCount)
            c == CountResult(dpLog, "captcha")
            n == Len(stderr)
        IN /\ Cardinality({k \in 1..n : stderr[k].kind = "saved"}) = 1
           /\ IF c = 0
              THEN /\ stderr[n] = saved
                   /\ \A k \in 1..n : stderr[k].kind \notin {"CAPTCHA blocked", "hints"}
              ELSE /\ n >= 3
                   /\ stderr[n - 2] = saved
                   /\ stderr[n - 1] = Blocked(c)
                   /\ stderr[n] = Hints
           /\ \A k \in 1..n : stderr[k].kind # "saved before cancellation"

\* two items, the first blocked and the second saved: "1/2 saved", 1 blocked
C16_Witness ==
    /\ dpPc = "done"
    /\ Len(dpLog) = 3
    /\ dpLog[1].result = "captcha"
    /\ dpLog[3].result = "True"
    /\ stderr[Len(stderr) - 2] = Saved(1, 2)
    /\ stderr[Len(stderr) - 1] = Blocked(1)

----------------------------------------------------------------------------
(* Properties of is_captcha *)

\* the upper-case form of a marker character
UpperOf(c) ==
    CASE c = "h" -> "H" [] c = "t" -> "T" [] c = "m" -> "M" [] c = "l" -> "L"
      [] c = "c" -> "C" [] c = "a" -> "A" [] c = "p" -> "P" [] c = "d" -> "D"
      [] c = "o" -> "O" [] c = "y" -> "Y" [] c = "e" -> "E"
      [] OTHER -> c

\* the marker m stands in the file f at byte i in either case of each
\* character, its last byte being at most the n-th
MarkerAt(f, m, i, n) ==
    /\ i + Len(m) - 1 <= n
    /\ i + Len(m) - 1 <= Len(f.head)
    /\ \A j \in 1..Len(m) : f.head[i + j - 1] \in {m[j], UpperOf(m[j])}

MarkerWithin(f, m, n) == \E i \in 1..n : MarkerAt(f, m, i, n)

\* C17: is_captcha returns true exactly for a file below 100000 bytes whose
\* first 1024 bytes hold "<html", "captcha" or "<!doctype" in any case; a
\* file of 100000 bytes or more is never flagged, a file of 99999 bytes with
\* "captcha" within its first 1024 bytes always is.
C17_FlaggedIffSmallWithMarker ==
    capPc = "done" =>
        /\ capResult <=>
              /\ capFile.size < 100000
              /\ \/ MarkerWithin(capFile, <<"<", "h", "t", "m", "l">>, 1024)
                 \/ MarkerWithin(capFile, <<"c", "a", "p", "t", "c", "h", "a">>, 1024)
                 \/ MarkerWithin(capFile, <<"<", "!", "d", "o", "c", "t", "y", "p", "e">>, 1024)
        /\ capFile.size >= 100000 => ~capResult
        /\ (capFile.size = 99999
              /\ MarkerWithin(capFile, <<"c", "a", "p", "t", "c", "h", "a">>, 1024)) => capResult

\* a file of 99999 bytes whose upper-case "CAPTCHA" ends at byte 1024 is flagged
C17_Witness ==
    /\ capPc = "done"
    /\ capFile.size = 99999
    /\ capFile.head = Pad(1017) \o <<"C", "A", "P", "T", "C", "H", "A">> \o Pad(2)
    /\ capResult

----------------------------------------------------------------------------
(* Properties of search *)

\* the entries of the parsed feed that the cutoff keeps, in document order,
\* stated on the characters: an entry is dropped when its date is a proper
\* prefix of the cutoff or is smaller at the first character that differs
DateOf(e) == SubSeq(e.published.text, 1, 10)

Before(a, b) ==
    \/ Len(a) < Len(b) /\ \A j \in 1..Len(a) : a[j] = b[j]
    \/ \E i \in 1..Len(a) :
          /\ i <= Len(b)
          /\ \A j \in 1..(i - 1) : a[j] = b[j]
          /\ Ord(a[i]) < Ord(b[i])

Kept(e) == since.isNone \/ ~Before(DateOf(e), since.val)

RECURSIVE KeptEntries(_)
KeptEntries(es) ==
    IF es = <<>> THEN <<>>
    ELSE IF Kept(Head(es)) THEN <<Head(es)>> \o KeptEntries(Tail(es))
    ELSE KeptEntries(Tail(es))

\* C18: every record search returns has its five fields non-null, and the
\* authors of an entry without authors is the empty string.
C18_AllFieldsNonNull ==
    (srPc = "returned" /\ srParsed) =>
        /\ \A k \in 1..Len(srResult) :
              /\ ~srResult[k].title.isNone
              /\ ~srResult[k].authors.isNone
              /\ ~srResult[k].published.isNone
              /\ ~srResult[k].link.isNone
              /\ ~srResult[k].abstract.isNone
        /\ \A k \in 1..Len(srResult) :
              (Len(srResult) = Len(feed.entries) /\ feed.entries[k].authors = <<>>) =>
                  srResult[k].authors = Some(<<>>)

\* C19: the records search returns are those of the entries whose date, the
\* first 10 characters of the timestamp, is not before the cutoff, one record
\* per such entry in document order; without a cutoff every entry has its
\* record, and no record is dated before the cutoff.
C19_SinceFilterKeepsOrder ==
    (srPc = "returned" /\ srParsed) =>
        /\ Len(srResult) = Len(KeptEntries(feed.entries))
        /\ \A k \in 1..Len(srResult) :
              LET e == KeptEntries(feed.entries)[k] IN
              /\ srResult[k].published = Some(DateOf(e))
              /\ e.id.tag = "text" => srResult[k].link = Some(e.id.text)
        /\ since.isNone => Len(srResult) = Len(feed.entries)
        /\ ~since.isNone =>
              \A k \in 1..Len(srResult) : ~Before(srResult[k].published.val, since.val)

\* with the cutoff 2025-10-16, of an entry of the 15th and one of the 16th at
\* 23:59:59 only the second has a record
C19_Witness ==
    /\ srPc = "returned" /\ srParsed
    /\ since = Some(Oct \o <<"1", "6">>)
    /\ Len(feed.entries) = 2
    /\ feed.entries[1].published = Text(Oct \o <<"1", "5">> \o LastSecond)
    /\ feed.entries[2].published = Text(Oct \o <<"1", "6">> \o LastSecond)
    /\ Len(srResult) = 1
    /\ srResult[1].published = Some(Oct \o <<"1", "6">>)

\* C20: when retry_with_backoff has returned None, after a permanent
\* failure, a failure of the last attempt or a cancelled backoff sleep,
\* search returns the empty list: it does not raise and parses nothing.
C20_FetchFailureYieldsEmpty ==
    (srPc # "fetch" /\ rbPc = "returned" /\ rbResult = None) =>
        /\ srPc = "returned"
        /\ srResult = <<>>
        /\ ~srParsed

\* the second of two attempts failed with a 503 and search has returned
C20_Witness ==
    /\ srPc = "returned"
    /\ rbResult = None
    /\ retryAttempts = 2
    /\ Len(rbLog) = 3
    /\ rbLog[3] = OpCall(Raised(<<"5", "0", "3">>))
    /\ srResult = <<>>

C30_FalsyResponseYieldsEmpty ==
    (srPc # "fetch" /\ rbPc = "returned" /\ (rbResult.isNone \/ rbResult.val = <<>>)) =>
        /\ srPc = "returned"
        /\ srResult = <<>>
        /\ ~srParsed
        /\ feed = NoFeed

\* the fetch succeeded with an empty body and search has returned
C30_Witness ==
    /\ srPc = "returned"
    /\ rbResult = Some(<<>>)
    /\ rbLog[Len(rbLog)] = OpCall(Returned(<<>>))
    /\ srResult = <<>>
    /\ ~srParsed

\* C27: parse_indices returns None or a list of at least one position, so
\* that "if indices" in download_papers is true for every list it returns.
C27_NeverEmptyList ==
    piPc = "done" =>
        /\ piResult.isNone \/ Len(piResult.val) >= 1
        /\ ~piResult.isNone => Truthy(piResult)

\* the range " 1-1 " selects the single position of a single result
C27_Witness ==
    /\ piPc = "done"
    /\ total = 1
    /\ spec = Some(<<" ", "1", "-", "1", " ">>)
    /\ piResult = Some(<<0>>)

\* the statement of C28 as claimed: a batch that is over without a cancelled
\* inter-item delay has attempted every selected item
C28_OnlyDelayCancelStops ==
    (dpPc \in {"done", "raised", "exit130"} /\ CountEv(dpLog, "cancel") = 0) =>
        DownloadCalls = SelectedCount

\* C28: an item that returns False, None or "captcha" is followed by the
\* delay, or by the final report when it was the last; a batch is over with
\* items left only after a cancelled inter-item delay or after a
\* KeyboardInterrupt during a fetch has left download_papers; at every point
\* ok + captcha_count <= downloads begun <= selected items.
C28_FailureNeverStopsBatch ==
    /\ dpPc \notin {"idle", "start"} =>
          /\ ok + captcha_count <= DownloadCalls
          /\ DownloadCalls <= SelectedCount
          /\ ok + captcha_count <= CountEv(dpLog, "item")
    /\ \A k \in 1..Len(dpLog) :
          (dpLog[k].ev = "item" /\ dpLog[k].result # "True") =>
              IF k < Len(dpLog) THEN dpLog[k + 1].ev \in {"delay", "cancel"}
              ELSE dpPc = (IF CountEv(dpLog, "item") < SelectedCount THEN "delay" ELSE "done")
    /\ (dpPc \in {"done", "raised", "exit130"} /\ DownloadCalls < SelectedCount) =>
          \/ dpPc = "exit130" /\ dpLog[Len(dpLog)] = DelayCancelled
          \/ dpPc = "raised"
    /\ dpPc = "done" => CountEv(dpLog, "item") = SelectedCount

\* the first of two items failed, the second was saved, the batch finished
C28_Witness ==
    /\ dpPc = "done"
    /\ Len(dpLog) = 3
    /\ dpLog[1].result = "False" /\ ~dpLog[1].cancelled
    /\ dpLog[3].result = "True"
    /\ ok = 1 /\ captcha_count = 0

----------------------------------------------------------------------------
(* Properties of the path derivation *)

\* the position of the last "/" of a string, 0 when it has none
LastSlash(s) ==
    IF \E i \in 1..Len(s) : s[i] = "/"
    THEN CHOOSE i \in 1..Len(s) : s[i] = "/" /\ \A j \in (i + 1)..Len(s) : s[j] # "/"
    ELSE 0

\* C24: the file name is the part of the link after its last "/", followed
\* by ".pdf"; it holds no "/", and the path is the output directory, one "/",
\* and that name: a direct child of the output directory.
C24_PathIsDirectChild ==
    pnPc = "done" =>
        LET name == SubSeq(pnLink, LastSlash(pnLink) + 1, Len(pnLink)) \o <<".", "p", "d", "f">>
            dir == IF pnDir[Len(pnDir)] = "/" THEN SubSeq(pnDir, 1, Len(pnDir) - 1) ELSE pnDir
        IN /\ \A i \in 1..Len(name) : name[i] # "/"
           /\ pnPath = dir \o <<"/">> \o name
           /\ SubSeq(pnPath, 1, LastSlash(pnPath) - 1) = dir
           /\ SubSeq(pnPath, LastSlash(pnPath) + 1, Len(pnPath)) = name

\* the link "a/.." gives the file "...pdf" inside the directory "o/p"
C24_Witness ==
    /\ pnPc = "done"
    /\ pnLink = <<"a", "/", ".", ".">>
    /\ pnDir = <<"o", "/", "p">>
    /\ pnPath = <<"o", "/", "p", "/", ".", ".", ".", "p", "d", "f">>

\* the selected items whose file exists at its derived path
SavedFiles == {k \in 1..Len(selected_papers) : fs[file_name(selected_papers[k])] # NoFile}

\* the statement of C26 as claimed: when download_papers has finished, ok is
\* the number of selected items whose file exists
C26_SavedItemsHaveFiles ==
    dpPc = "done" => ok = Cardinality(SavedFiles)

----------------------------------------------------------------------------
(* Properties of the two retry loops run against the same environment *)

\* a log without the values and bodies: calls with what the environment did,
\* sleeps with their seconds, cancellations
ShapeOf(log) ==
    [k \in 1..Len(log) |->
        IF log[k].ev = "sleep" THEN <<"sleep", log[k].secs>> ELSE InputOf(log[k])]

\* C25: when retry_with_backoff and the loop of download have met the same
\* failures and cancellations, they have made the same calls and started the
\* same sleeps in the same order, both have stopped or neither has, and
\* download has returned False exactly when retry_with_backoff has returned
\* None.
C25_SameRetryPolicy ==
    InputsOf(rbLog) = InputsOf(dlLog) =>
        /\ ShapeOf(rbLog) = ShapeOf(dlLog)
        /\ rbPc \in {"returned", "raised"} <=> dlPc \in {"returned", "raised"}
        /\ rbPc = "raised" <=> dlPc = "raised"
        /\ (rbPc = "returned" /\ rbResult = None) <=> (dlPc = "returned" /\ dlResult = "False")
        /\ \A k \in 1..Len(rbLog) :
              rbLog[k].ev = "sleep" =>
                  rbLog[k].secs = 2 ^ (Cardinality({j \in 1..k : rbLog[j].ev = "sleep"}) - 1)

\* with three attempts both loops slept 1 s and 2 s after a 503 and a
\* timeout, and both gave up on a 404 at the third attempt
C25_Witness ==
    /\ retryAttempts = 3
    /\ Len(rbLog) = 5 /\ Len(dlLog) = 5
    /\ InputsOf(rbLog) = InputsOf(dlLog)
    /\ rbLog[2].secs = 1 /\ dlLog[4].secs = 2
    /\ rbLog[5] = OpCall(Raised(<<"4", "0", "4">>))
    /\ rbPc = "returned" /\ rbResult = None
    /\ dlPc = "returned" /\ dlResult = "False"

----------------------------------------------------------------------------
(* Properties of main *)

\* the conditions under which main refuses to go on
BelowOne ==
    \/ ~args.n.isNone /\ args.n.val < 1
    \/ ~args.t.isNone /\ args.t.val < 1

NoRecords == srPc = "returned" /\ srResult = <<>>

TooManyDownloadArgs == ~args.d.isNone /\ Len(args.d.val) > 2

\* an index spec was given and parse_indices answers None for the number of
\* results
InvalidIndexSpec ==
    /\ srPc = "returned"
    /\ srResult # <<>>
    /\ ~args.d.isNone
    /\ Len(args.d.val) \in {1, 2}
    /\ Truthy(IndicesSpecOf(args.d.val))
    /\ parse_indices(IndicesSpecOf(args.d.val), Len(srResult)).isNone

Refused == BelowOne \/ NoRecords \/ TooManyDownloadArgs \/ InvalidIndexSpec

\* the user cancelled while search was fetching
SearchCancelled == srPc = "raised" /\ rbPc = "raised"

\* C22 as stated: main ends with exit status 1 and starts no download when
\* the search yields no records, when -n or -t is below 1, when -d has more
\* than two arguments, or when parse_indices rejects the index spec
C22_RefusedExitsOne ==
    (mainPc = "exited" /\ Refused) => (exitStatus = 1 /\ dpPc = "idle")

\* C22: unless the configuration display is requested (status 0) or the
\* user cancels during the search (status 130), main ends with exit status 1
\* and starts no download when the search yields no records, when -n or -t
\* is below 1, when -d has more than two arguments, or when parse_indices
\* rejects the index spec
C22_RefusedExitsOneUnlessEnvOrCancel ==
    (mainPc = "exited" /\ Refused /\ ~args.env /\ ~SearchCancelled)
        => (exitStatus = 1 /\ dpPc = "idle")

\* -d o 2 with one result: the listing, the report of the spec, status 1
C22_Witness ==
    /\ mainPc = "exited"
    /\ InvalidIndexSpec
    /\ ~args.env
    /\ Len(srResult) = 1
    /\ stderr[Len(stderr)] = Notice("Invalid index specification")
    /\ exitStatus = 1
    /\ dpPc = "idle"

\* what stdout holds once format_papers ran
Listed == stdout = <<Listing(srResult)>> /\ srResult # <<>>

\* the report parse_download_args wrote last: of the directory, or of the
\* index spec
DownloadArgsRejected ==
    /\ stderr # <<>>
    /\ stderr[Len(stderr)] \in {Notice("Error (-d)"), Notice("Invalid index specification")}

\* C29: format_papers has run before parse_download_args runs and before
\* download_papers is called, so the listing is on stdout when a download
\* begins and when main exits with status 1 for a -d directory or an index
\* spec that parse_download_args rejects
C29_ListingBeforeDownloadArgs ==
    /\ \A k \in 1..Len(mainLog) :
          mainLog[k] \in {"parse_download_args", "download_papers"}
              => \E j \in 1..(k - 1) : mainLog[j] = "format_papers"
    /\ (mainPc \in {"download_args", "download"} \/ dpPc # "idle") => Listed
    /\ (mainPc = "exited" /\ DownloadArgsRejected) => (exitStatus = 1 /\ Listed)

\* -d with a directory that cannot be written, two results: both are listed
\* before the exit
C29_Witness ==
    /\ mainPc = "exited"
    /\ exitStatus = 1
    /\ stderr[Len(stderr)] = Notice("Error (-d)")
    /\ mainLog = <<"search", "format_papers", "parse_download_args">>
    /\ Len(stdout[1].papers) = 2

\* the steps of search and retry_with_backoff, of parse_download_args, and
\* of download_papers and download
NoticeStep ==
    \/ mainPc = "search" /\ srPc = "fetch"
    \/ mainPc \in {"download_args", "download"}

\* C23: the steps of retry_with_backoff, search, download, download_papers
\* and parse_download_args leave stdout as it is, whatever they write to
\* stderr, and stdout only ever holds the configuration display or the
\* listing of format_papers
C23_NoticesOnlyOnStderr ==
    [][ /\ NoticeStep => stdout' = stdout
        /\ stdout' \in {<<>>, <<ConfigText>>, <<Listing(srResult')>>} ]_vars

\* a run with a retry of the search, a failed item and the final report:
\* stderr holds all of it, stdout the listing alone
C23_Witness ==
    /\ mainPc = "exited"
    /\ dpPc = "done"
    /\ \E k \in 1..Len(stderr) : stderr[k].kind = "retry"
    /\ \E k \in 1..Len(stderr) : stderr[k] = Notice("Err")
    /\ stderr[Len(stderr)].kind = "saved"
    /\ stdout = <<Listing(srResult)>>

----------------------------------------------------------------------------
(* What a spec string denotes, stated token by token *)

CountOf(s, c) == Cardinality({i \in 1..Len(s) : s[i] = c})

\* t is an integer numeral: an optional sign and at least one digit
Numeric(t) ==
    LET u == strip(t)
    IN  \E k \in 0..1 :
            /\ Len(u) > k
            /\ k = 1 => u[1] \in {"+", "-"}
            /\ \A i \in (k + 1)..Len(u) : u[i] \in Digits

Tokens(sp) == split(sp.val, ",")

\* a token is valid when it is one numeral n with 1 <= n <= tot, or two
\* numerals a, b around a single dash with 1 <= a <= b <= tot
TokenValid(tok, tot) ==
    LET t == strip(tok)
    IN  \/ /\ CountOf(t, "-") = 0
           /\ Numeric(t)
           /\ 1 <= int(t).val /\ int(t).val <= tot
        \/ /\ CountOf(t, "-") = 1
           /\ Numeric(split1(t, "-")[1]) /\ Numeric(split1(t, "-")[2])
           /\ 1 <= int(split1(t, "-")[1]).val
           /\ int(split1(t, "-")[1]).val <= int(split1(t, "-")[2]).val
           /\ int(split1(t, "-")[2]).val <= tot

\* the zero-based positions a token names ({-1}, no position, when invalid)
TokenPositions(tok, tot) ==
    LET t == strip(tok)
    IN  IF ~TokenValid(tok, tot) THEN {-1}
        ELSE IF CountOf(t, "-") = 0 THEN {int(t).val - 1}
        ELSE (int(split1(t, "-")[1]).val - 1)..(int(split1(t, "-")[2]).val - 1)

StrictlyAscending(r) == \A i \in 1..(Len(r) - 1) : r[i] < r[i + 1]

\* C1: a list returned by parse_indices is strictly ascending (so free of
\* duplicates), holds exactly the zero-based positions its tokens name, and
\* every element is >= 0 and < total.
C1_SortedDedupedPositions ==
    (piPc = "done" /\ ~piResult.isNone) =>
        /\ StrictlyAscending(piResult.val)
        /\ Range(piResult.val) = UNION {TokenPositions(Tokens(spec)[i], total) : i \in 1..Len(Tokens(spec))}
        /\ \A i \in 1..Len(piResult.val) : piResult.val[i] >= 0 /\ piResult.val[i] < total

\* a list came back from tokens given out of order and overlapping: a single
\* position followed by a range that starts below it and repeats it
C1_Witness ==
    /\ piPc = "done" /\ ~piResult.isNone
    /\ Len(Tokens(spec)) = 2
    /\ TokenPositions(Tokens(spec)[1], total) = {1}
    /\ CountOf(Tokens(spec)[2], "-") = 1
    /\ TokenPositions(Tokens(spec)[2], total) = {0, 1}
    /\ piResult.val = <<0, 1>>

\* C2: parse_indices is all-or-nothing: a null or empty spec, or a spec with
\* any invalid token, yields None, whatever its other tokens are.
C2_AllOrNothing ==
    (piPc = "done" /\ (spec.isNone \/ spec.val = <<>>
                        \/ \E i \in 1..Len(Tokens(spec)) : ~TokenValid(Tokens(spec)[i], total)))
        => piResult = None

\* None came back for a spec whose first token is valid and whose second is not
C2_Witness ==
    /\ piPc = "done" /\ ~spec.isNone /\ piResult = None
    /\ Len(Tokens(spec)) >= 2
    /\ TokenValid(Tokens(spec)[1], total)
    /\ ~TokenValid(Tokens(spec)[2], total)

====
